---- MODULE Spec2Model ----
(***************************************************************************)
(* A model of the consensus and issuance core of the Interchained node:    *)
(*   - the on-chain token ledger        (src/src/wallet/token.cpp),        *)
(*   - the mining coordinator           (src/src/miner.cpp, GenerateBitcoins), *)
(*   - the block-template assembler     (src/src/miner.cpp, BlockAssembler), *)
(*   - proof of work and retargeting    (src/src/pow.cpp).                 *)
(* Each subsystem has its own specification over the shared variables; the *)
(* variables of the other subsystems keep their initial values.            *)
(***************************************************************************)
EXTENDS Integers, Sequences, FiniteSets, TLC

VARIABLES
    ledger,     \* the TokenLedger object: its m_* members
    db,         \* g_token_db: the persisted ('v', version) and ('s', state)
    chain,      \* ::ChainActive(): chain[h+1] is the block at height h
    call,       \* the last ledger entry point called, with its arguments
    ret,        \* what that call returned
    nCalls,     \* number of ledger entry points called so far
    fGenerating,  \* static std::atomic<bool> fGenerating
    foundBlock,   \* static std::atomic<bool> foundBlock
    shutdown,     \* ShutdownRequested()
    payoutValid,  \* IsValidDestination(DecodeDestination(payoutAddress))
    sup_pc,       \* where the supervisor thread of GenerateBitcoins is
    round,        \* number of templates the supervisor has built
    threadId,     \* the supervisor's spawn-loop counter
    wpc,          \* where each spawned worker thread <<round, threadId>> is
    submitted,    \* the workers that have called ProcessNewBlock
    chainTip,     \* ::ChainActive().Height(): the height of the active tip
    builtOn,      \* builtOn[r]: the tip height round r's template was built on
    mempool,      \* m_mempool.mapTx: the entry of every transaction id
    mapTxOrder,   \* the ancestor_score index of mapTx, best first
    asm,          \* the BlockAssembler and the locals of addPackageTxs
    tmpl,         \* pblocktemplate: block.vtx, the coinbase outputs, vTxFees[0]
    adjustedTime, \* what GetAdjustedTime() returns to CreateNewBlock's two reads
    pindexLast,   \* the CBlockIndex chain from genesis to the active tip
    nConnected,   \* number of blocks connected since the node started
    powCall,      \* the last CheckProofOfWork call, with its arguments
    powRet        \* what that call returned

ledgerVars == <<ledger, db, chain, call, ret, nCalls>>

tipVars == <<chainTip, builtOn>>

minerVars == <<fGenerating, foundBlock, shutdown, payoutValid, sup_pc, round,
               threadId, wpc, submitted, tipVars>>

asmVars == <<mempool, mapTxOrder, asm, tmpl, adjustedTime>>

powVars == <<pindexLast, nConnected, powCall, powRet>>

vars == <<ledgerVars, minerVars, asmVars, powVars>>

(***************************************************************************)
(* Bounds of the model.                                                    *)
(***************************************************************************)
MaxCalls == 3

\* the chain grows to this height at most
MaxHeight == 3

\* nThreads of GenerateBitcoins: worker threads per template
NThreads == 2

\* the supervisor builds this many templates at most
MaxRounds == 2

MaxTip == 2

(***************************************************************************)
(* Program constants.                                                      *)
(***************************************************************************)
TOKEN_DB_VERSION == 3
TOKEN_DEFAULT_FEE_PER_VBYTE == 10000
TOKEN_CREATE_FEE_PER_VBYTE == 10000000
TOKEN_MIN_GOV_FEE == 7500000

\* Params().TokenActivationHeight(), a parameter of the network
TokenActivationHeight == 2

(***************************************************************************)
(* std::map as a function on the set of its keys.                          *)
(***************************************************************************)
EmptyMap == [k \in {} |-> 0]

MapGet(m, k) == IF k \in DOMAIN m THEN m[k] ELSE 0

MapPut(m, k, v) == [x \in (DOMAIN m) \cup {k} |-> IF x = k THEN v ELSE m[x]]

MapErase(m, k) == [x \in (DOMAIN m) \ {k} |-> m[x]]

\* m[k] of std::map: inserts a value-initialised entry when k is absent
MapTouch(m, k) == IF k \in DOMAIN m THEN m ELSE MapPut(m, k, 0)

(***************************************************************************)
(* The mining coordinator: GenerateBitcoins(true, ...) has started the     *)
(* supervisor thread; the supervisor builds a template and spawns NThreads *)
(* detached workers per round.  A worker is named <<round, threadId>>.     *)
(***************************************************************************)
MinerInit ==
    /\ fGenerating = TRUE
    /\ foundBlock = FALSE
    /\ shutdown = FALSE
    /\ payoutValid \in BOOLEAN
    /\ sup_pc = "while"
    /\ round = 0
    /\ threadId = 0
    /\ wpc = EmptyMap
    /\ submitted = {}
    /\ chainTip = 0
    /\ builtOn = <<>>

\* mining was never started
MinerIdle ==
    /\ fGenerating = FALSE
    /\ foundBlock = FALSE
    /\ shutdown = FALSE
    /\ payoutValid = TRUE
    /\ sup_pc = "exit"
    /\ round = 0
    /\ threadId = 0
    /\ wpc = EmptyMap
    /\ submitted = {}
    /\ chainTip = 0
    /\ builtOn = <<>>

\* while (fGenerating && !ShutdownRequested()) { foundBlock.store(false); ...
\* the payout address is decoded; an invalid one ends the thread
SupLoop ==
    /\ sup_pc = "while"
    /\ IF fGenerating /\ ~shutdown
       THEN /\ foundBlock' = FALSE
            /\ sup_pc' = IF payoutValid THEN "build" ELSE "exit"
       ELSE /\ sup_pc' = "exit"
            /\ UNCHANGED foundBlock
    /\ UNCHANGED <<fGenerating, shutdown, payoutValid, round, threadId, wpc,
                   submitted, tipVars, ledgerVars,
                   asmVars, powVars>>

\* assembler.CreateNewBlock(scriptPubKey): a template, a null template
\* (continue), or the std::runtime_error of a failed TestBlockValidity, which
\* nothing in the thread catches
SupBuild ==
    /\ sup_pc = "build"
    /\ round < MaxRounds
    /\ \E outcome \in {"template", "null", "throw"} :
         CASE outcome = "template" ->
                /\ round' = round + 1
                /\ threadId' = 0
                /\ builtOn' = Append(builtOn, chainTip)
                /\ sup_pc' = "spawn"
           [] outcome = "null" ->
                /\ sup_pc' = "while"
                /\ UNCHANGED <<round, threadId, builtOn>>
           [] outcome = "throw" ->
                /\ sup_pc' = "terminate"
                /\ UNCHANGED <<round, threadId, builtOn>>
    /\ UNCHANGED <<fGenerating, foundBlock, shutdown, payoutValid, wpc,
                   submitted, chainTip, ledgerVars, asmVars, powVars>>

\* for (threadId = 0; threadId < nThreads; ++threadId) std::thread(...).detach()
\* the new worker stands before the first test of its nonce loop
SupSpawn ==
    /\ sup_pc = "spawn"
    /\ IF threadId < NThreads
       THEN /\ wpc' = MapPut(wpc, <<round, threadId>>, "start")
            /\ threadId' = threadId + 1
            /\ UNCHANGED sup_pc
       ELSE /\ sup_pc' = "wait"
            /\ UNCHANGED <<wpc, threadId>>
    /\ UNCHANGED <<fGenerating, foundBlock, shutdown, payoutValid, round,
                   submitted, tipVars, ledgerVars,
                   asmVars, powVars>>

\* while (!ShutdownRequested() && fGenerating && !foundBlock.load()) sleep(200ms)
SupWait ==
    /\ sup_pc = "wait"
    /\ shutdown \/ ~fGenerating \/ foundBlock
    /\ sup_pc' = "restart"
    /\ UNCHANGED <<fGenerating, foundBlock, shutdown, payoutValid, round,
                   threadId, wpc, submitted, tipVars, ledgerVars,
                   asmVars, powVars>>

\* if (foundBlock.load()) sleep(500ms); and back to the loop test
SupRestart ==
    /\ sup_pc = "restart"
    /\ sup_pc' = "while"
    /\ UNCHANGED <<fGenerating, foundBlock, shutdown, payoutValid, round,
                   threadId, wpc, submitted, tipVars, ledgerVars,
                   asmVars, powVars>>

Running == sup_pc # "terminate"

\* the head of the nonce loop, at "start" for nonce = startNonce + threadId
\* and at "check" after nonce += nThreads: the for-condition nonce < max fails
\* when the nonce is the 32-bit maximum (the loop is left), which the first
\* nonce can be for threadId >= 1 only, startNonce being below the maximum;
\* or the three flags are tested (return), or the worker goes on to hash
WorkerCheck(w) ==
    /\ Running
    /\ wpc[w] \in {"start", "check"}
    /\ \/ /\ wpc[w] = "check" \/ w[2] >= 1
          /\ wpc' = MapPut(wpc, w, "exhausted")
       \/ wpc' = MapPut(wpc, w, IF shutdown \/ ~fGenerating \/ foundBlock
                                THEN "done" ELSE "hash")
    /\ UNCHANGED <<fGenerating, foundBlock, shutdown, payoutValid, sup_pc,
                   round, threadId, submitted, tipVars, ledgerVars,
                   asmVars, powVars>>

\* YespowerHash and the comparison with the target: a hit or a miss
WorkerHash(w) ==
    /\ Running
    /\ wpc[w] = "hash"
    /\ \E hit \in BOOLEAN : wpc' = MapPut(wpc, w, IF hit THEN "found" ELSE "check")
    /\ UNCHANGED <<fGenerating, foundBlock, shutdown, payoutValid, sup_pc,
                   round, threadId, submitted, tipVars, ledgerVars,
                   asmVars, powVars>>

\* g_chainman.ProcessNewBlock(chainparams, pblockShared, true, &fNewBlock):
\* the block may be connected if its template was built on the present tip
WorkerSubmit(w) ==
    /\ Running
    /\ wpc[w] = "found"
    /\ submitted' = submitted \cup {w}
    /\ wpc' = MapPut(wpc, w, "store")
    /\ \/ UNCHANGED chainTip
       \/ /\ builtOn[w[1]] = chainTip
          /\ chainTip < MaxTip
          /\ chainTip' = chainTip + 1
    /\ UNCHANGED <<fGenerating, foundBlock, shutdown, payoutValid, sup_pc,
                   round, threadId, builtOn, ledgerVars, asmVars, powVars>>

\* foundBlock.store(true); return
WorkerStore(w) ==
    /\ Running
    /\ wpc[w] = "store"
    /\ foundBlock' = TRUE
    /\ wpc' = MapPut(wpc, w, "done")
    /\ UNCHANGED <<fGenerating, shutdown, payoutValid, sup_pc, round, threadId,
                   submitted, tipVars, ledgerVars,
                   asmVars, powVars>>

\* StartShutdown() somewhere in the node
RequestShutdown ==
    /\ Running
    /\ ~shutdown
    /\ shutdown' = TRUE
    /\ UNCHANGED <<fGenerating, foundBlock, payoutValid, sup_pc, round,
                   threadId, wpc, submitted, tipVars, ledgerVars,
                   asmVars, powVars>>

\* GenerateBitcoins(false, ...): fGenerating = fGenerate; return
StopGenerating ==
    /\ Running
    /\ fGenerating
    /\ fGenerating' = FALSE
    /\ UNCHANGED <<foundBlock, shutdown, payoutValid, sup_pc, round, threadId,
                   wpc, submitted, tipVars, ledgerVars,
                   asmVars, powVars>>

\* a block mined elsewhere is connected: the active tip changes
TipChanged ==
    /\ Running
    /\ chainTip < MaxTip
    /\ chainTip' = chainTip + 1
    /\ UNCHANGED <<fGenerating, foundBlock, shutdown, payoutValid, sup_pc,
                   round, threadId, wpc, submitted, builtOn, ledgerVars,
                   asmVars, powVars>>

NextMiner ==
    \/ SupLoop \/ SupBuild \/ SupSpawn \/ SupWait \/ SupRestart
    \/ \E w \in DOMAIN wpc : WorkerCheck(w)
    \/ \E w \in DOMAIN wpc : WorkerHash(w)
    \/ \E w \in DOMAIN wpc : WorkerSubmit(w)
    \/ \E w \in DOMAIN wpc : WorkerStore(w)
    \/ RequestShutdown \/ StopGenerating
    \/ TipChanged

(***************************************************************************)
(* Block assembly.  The mempool is a map from transaction ids to entries;  *)
(* an entry records the virtual size, weight, sigop cost, fee, modified    *)
(* fee, finality, witness flag and in-mempool parents of its transaction.  *)
(* Ids are numbered so that parents come first; the ancestor_score index   *)
(* and the hash order of entries are independent of the numbering.         *)
(***************************************************************************)
\* the mempool holds this many transactions
MaxTx == 3

MaxConnect == 6

MAX_BLOCK_WEIGHT == 4000000
MAX_BLOCK_SIGOPS_COST == 80000
WITNESS_SCALE_FACTOR == 4
MAX_CONSECUTIVE_FAILURES == 1000
DEFAULT_BLOCK_MIN_TX_FEE == 1000
GOV_BPS == 7300
OP_BPS == 500
BPS_DENOM == 10000

\* chainparams.GetConsensus().nFeeBurnEndHeight, a parameter of the network
nFeeBurnEndHeight == 2

\* Consensus::Params of the modelled network, and its genesis block's time
params ==
    [powLimit |-> 65535,
     powLimitYespower |-> 131071,
     hashGenesisBlock |-> 7,
     yespowerForkHeight |-> 2,
     nPowTargetSpacing |-> 30,
     nPowTargetTimespan |-> 120,
     fPowAllowMinDifficultyBlocks |-> FALSE,
     fPowNoRetargeting |-> FALSE,
     difficultyForkHeight |-> 3,
     nextDifficultyForkHeight |-> 6,
     nextDifficultyFork2Height |-> 22,
     nextDifficultyFork3Height |-> 26,
     nextDifficultyFork5Height |-> 28,
     genesisTime |-> 1000]

\* the entries a mempool is drawn from: a plain payment whose fee was
\* prioritised, a large witness transaction with many sigops, a transaction
\* that is not final yet, and one that pays next to nothing
TxKinds ==
    { [size |-> 100, weight |-> 400, sigops |-> 4, fee |-> 90,
       modfee |-> 100, final |-> TRUE, witness |-> FALSE],
      [size |-> 200, weight |-> 798, sigops |-> 40000, fee |-> 1200,
       modfee |-> 1200, final |-> TRUE, witness |-> TRUE],
      [size |-> 100, weight |-> 400, sigops |-> 4, fee |-> 500,
       modfee |-> 500, final |-> FALSE, witness |-> FALSE],
      [size |-> 100, weight |-> 400, sigops |-> 4, fee |-> 10,
       modfee |-> 10, final |-> TRUE, witness |-> FALSE] }

\* -blockmaxweight as given to the constructor
BlockMaxWeightOptions == {4700, 5300}

\* the heights a template is built for: the last burning one and the next
TemplateHeights == {nFeeBurnEndHeight, nFeeBurnEndHeight + 1}

\* the values GetBlockSubsidy returns
Subsidies == {77, 5000}

TxIds == 1 .. MaxTx

Max(a, b) == IF a >= b THEN a ELSE b

Min(a, b) == IF a <= b THEN a ELSE b

\* the orderings of a finite set
Orderings(S) ==
    {s \in [1 .. Cardinality(S) -> S] :
        \A i, j \in 1 .. Cardinality(S) : i # j => s[i] # s[j]}

TxOrders == Orderings(TxIds)

RECURSIVE SumTx(_, _)
SumTx(S, f) ==
    IF S = {} THEN 0
    ELSE LET x == CHOOSE y \in S : TRUE IN f[x] + SumTx(S \ {x}, f)

\* CTxMemPool::CalculateMemPoolAncestors without limits: all in-mempool
\* ancestors of the entry, the entry itself excluded
RECURSIVE CalculateMemPoolAncestors(_)
CalculateMemPoolAncestors(i) ==
    mempool[i].parents
        \cup UNION {CalculateMemPoolAncestors(p) : p \in mempool[i].parents}

\* CTxMemPool::CalculateDescendants: the entry and all its descendants
CalculateDescendants(i) ==
    {i} \cup {j \in DOMAIN mempool : i \in CalculateMemPoolAncestors(j)}

GetTxSize == [i \in DOMAIN mempool |-> mempool[i].size]

GetModifiedFee == [i \in DOMAIN mempool |-> mempool[i].modfee]

GetSigOpCost == [i \in DOMAIN mempool |-> mempool[i].sigops]

GetCountWithAncestors(i) == Cardinality(CalculateMemPoolAncestors(i)) + 1

\* the entry's cached aggregates over itself and its in-mempool ancestors,
\* as a CTxMemPoolModifiedEntry built from the entry
CTxMemPoolModifiedEntry(i) ==
    LET pkg == CalculateMemPoolAncestors(i) \cup {i}
    IN  [nSizeWithAncestors |-> SumTx(pkg, GetTxSize),
         nModFeesWithAncestors |-> SumTx(pkg, GetModifiedFee),
         nSigOpCostWithAncestors |-> SumTx(pkg, GetSigOpCost)]

\* a is better than b when its ancestor feerate is higher; on equal
\* feerates the hashes decide (hashLess)
CompareTxMemPoolEntryByAncestorFee(a, b, hashLess) ==
    LET f1 == a.nModFeesWithAncestors * b.nSizeWithAncestors
        f2 == a.nSizeWithAncestors * b.nModFeesWithAncestors
    IN  IF f1 = f2 THEN hashLess ELSE f1 > f2

\* the orders the ancestor_score index of mapTx can have: no entry comes
\* before one with a strictly higher ancestor feerate
AncestorScoreOrders ==
    LET better ==
            {p \in (DOMAIN mempool) \X (DOMAIN mempool) :
                CompareTxMemPoolEntryByAncestorFee(
                    CTxMemPoolModifiedEntry(p[1]),
                    CTxMemPoolModifiedEntry(p[2]), FALSE)}
    IN  {s \in TxOrders :
            \A k \in 1 .. Len(s) - 1 : <<s[k + 1], s[k]>> \notin better}

\* blockMinFeeRate.GetFee(size): the rate is per 1000 virtual bytes
GetFee(nSatoshisPerK, nBytes) ==
    LET nFee == (nSatoshisPerK * nBytes) \div 1000
    IN  IF nFee = 0 /\ nBytes # 0 /\ nSatoshisPerK > 0 THEN 1 ELSE nFee

NoTemplate == [vtx |-> <<>>, vout |-> <<>>, vTxFees0 |-> -1, nTime |-> 0]

\* a BlockAssembler that has not been asked for a block
IdleAssembler ==
    [pc |-> "idle", nBlockMaxWeight |-> 0, blockMinFeeRate |-> 0,
     fIncludeWitness |-> FALSE, nHeight |-> 0, inBlock |-> {},
     nBlockWeight |-> 0, nBlockSigOpsCost |-> 0, nBlockTx |-> 0,
     nFees |-> 0, mi |-> 1, mapModifiedTx |-> EmptyMap, failedTx |-> {},
     nConsecutiveFailed |-> 0, subsidy |-> 0, govValid |-> FALSE,
     hasOpDest |-> FALSE]

\* pindexPrev->GetMedianTimePast() of the tip the template is built on
nMedianTimePast == params.genesisTime

\* what GetAdjustedTime() can return
ClockReadings ==
    {nMedianTimePast - 5, nMedianTimePast + 60, nMedianTimePast + 1500}

\* a clock that reads one minute after the median time past, twice
SteadyClock == <<nMedianTimePast + 60, nMedianTimePast + 60>>

\* the clocks that do not run backwards
Clocks == {c \in ClockReadings \X ClockReadings : c[2] >= c[1]}

\* the nTime that CreateNewBlock sets first, from the clock reading now
InitialBlockTime(nHeight, now) ==
    LET safeTime == Max(nMedianTimePast + 1, now) IN
    IF nHeight >= params.difficultyForkHeight
    THEN Min(safeTime, nMedianTimePast + 20 * 60)
    ELSE now

\* pblock->nTime after UpdateTime(pblock, consensusParams, pindexPrev)
UpdateTime(nOldTime, now) ==
    LET nNewTime == Max(nMedianTimePast + 1, now) IN
    IF nOldTime < nNewTime THEN nNewTime ELSE nOldTime

AsmIdle ==
    /\ mempool = EmptyMap
    /\ mapTxOrder = <<>>
    /\ asm = IdleAssembler
    /\ tmpl = NoTemplate
    /\ adjustedTime = SteadyClock

\* the in-mempool parents of every transaction: earlier transactions
ParentMaps ==
    {f \in [TxIds -> SUBSET TxIds] : \A i \in TxIds : f[i] \subseteq 1 .. i - 1}

\* a mempool of MaxTx entries with consistent ancestor state
AsmInit ==
    /\ \E parents \in ParentMaps, kind \in [TxIds -> TxKinds] :
          mempool = [i \in TxIds |->
                        [size |-> kind[i].size, weight |-> kind[i].weight,
                         sigops |-> kind[i].sigops, fee |-> kind[i].fee,
                         modfee |-> kind[i].modfee, final |-> kind[i].final,
                         witness |-> kind[i].witness, parents |-> parents[i]]]
    /\ mapTxOrder \in AncestorScoreOrders
    /\ asm = IdleAssembler
    /\ tmpl = NoTemplate
    /\ adjustedTime = SteadyClock

\* a mempool of one transaction, and any clock
AsmTimeInit ==
    /\ \E kind \in TxKinds :
          mempool = [i \in {1} |->
                        [size |-> kind.size, weight |-> kind.weight,
                         sigops |-> kind.sigops, fee |-> kind.fee,
                         modfee |-> kind.modfee, final |-> kind.final,
                         witness |-> kind.witness, parents |-> {}]]
    /\ mapTxOrder = <<1>>
    /\ asm = IdleAssembler
    /\ tmpl = NoTemplate
    /\ adjustedTime \in Clocks

\* the transactions of the subsidy-split scenario, amounts in units of
\* 10^6 satoshi: each pays the minimum fee rate, one of them 1 * 10^8
SplitTxKinds ==
    { [size |-> 100, weight |-> 400, sigops |-> 4, fee |-> 100,
       modfee |-> 100, final |-> TRUE, witness |-> FALSE],
      [size |-> 60, weight |-> 240, sigops |-> 4, fee |-> 60,
       modfee |-> 60, final |-> TRUE, witness |-> FALSE],
      [size |-> 40, weight |-> 160, sigops |-> 4, fee |-> 40,
       modfee |-> 40, final |-> TRUE, witness |-> FALSE] }

\* a mempool of two independent transactions; equal fee rates are ordered
\* by hash, so either comes first
AsmSplitInit ==
    /\ \E kind \in [{1, 2} -> SplitTxKinds] :
          mempool = [i \in {1, 2} |->
                        [size |-> kind[i].size, weight |-> kind[i].weight,
                         sigops |-> kind[i].sigops, fee |-> kind[i].fee,
                         modfee |-> kind[i].modfee, final |-> kind[i].final,
                         witness |-> kind[i].witness, parents |-> {}]]
    /\ mapTxOrder \in {<<1, 2>>, <<2, 1>>}
    /\ asm = IdleAssembler
    /\ tmpl = NoTemplate
    /\ adjustedTime = SteadyClock

\* the constructor's clamp of the configured weight
ClampBlockMaxWeight(opt) == Max(4000, Min(MAX_BLOCK_WEIGHT - 4000, opt))

\* resetBlock
resetBlock(a) ==
    [a EXCEPT !.inBlock = {}, !.nBlockWeight = 4000,
              !.nBlockSigOpsCost = 400, !.fIncludeWitness = FALSE,
              !.nBlockTx = 0, !.nFees = 0]

\* an onlyUnconfirmed that erases nothing
onlyUnconfirmed_KeepsAll(a, testSet) == testSet

onlyUnconfirmed(a, testSet) == testSet \ a.inBlock

TestPackage_NoWeight(a, packageSize, packageSigOpsCost) ==
    ~(a.nBlockSigOpsCost + packageSigOpsCost >= MAX_BLOCK_SIGOPS_COST)

TestPackage(a, packageSize, packageSigOpsCost) ==
    IF a.nBlockWeight + WITNESS_SCALE_FACTOR * packageSize >= a.nBlockMaxWeight
    THEN FALSE
    ELSE IF a.nBlockSigOpsCost + packageSigOpsCost >= MAX_BLOCK_SIGOPS_COST
    THEN FALSE
    ELSE TRUE

\* IsFinalTx and HasWitness are properties of the entry's transaction
TestPackageTransactions(a, package) ==
    \A it \in package :
        /\ mempool[it].final
        /\ ~(~a.fIncludeWitness /\ mempool[it].witness)

\* AddToBlock on b, the assembler and its template
AddToBlock(b, iter) ==
    [asm |-> [b.asm EXCEPT
                !.nBlockWeight = @ + mempool[iter].weight,
                !.nBlockTx = @ + 1,
                !.nBlockSigOpsCost = @ + mempool[iter].sigops,
                !.nFees = @ + mempool[iter].fee,
                !.inBlock = @ \cup {iter}],
     tmpl |-> [b.tmpl EXCEPT !.vtx = Append(@, iter)]]

UpdatePackagesForAdded(alreadyAdded, mapModifiedTx) ==
    LET addedAbove(d) ==
            {it \in alreadyAdded : d \in CalculateDescendants(it)}
        touched ==
            {d \in DOMAIN mempool : d \notin alreadyAdded /\ addedAbove(d) # {}}
        before(d) ==
            IF d \in DOMAIN mapModifiedTx THEN mapModifiedTx[d]
            ELSE CTxMemPoolModifiedEntry(d)
    IN  [d \in (DOMAIN mapModifiedTx) \cup touched |->
            IF d \in touched
            THEN [nSizeWithAncestors |->
                      before(d).nSizeWithAncestors
                          - SumTx(addedAbove(d), GetTxSize),
                  nModFeesWithAncestors |->
                      before(d).nModFeesWithAncestors
                          - SumTx(addedAbove(d), GetModifiedFee),
                  nSigOpCostWithAncestors |->
                      before(d).nSigOpCostWithAncestors
                          - SumTx(addedAbove(d), GetSigOpCost)]
            ELSE mapModifiedTx[d]]

SkipMapTxEntry(a, it) ==
    it \in DOMAIN a.mapModifiedTx \/ it \in a.inBlock \/ it \in a.failedTx

SortForBlock_Descending(package) ==
    {s \in Orderings(package) :
        \A k \in 1 .. Len(s) - 1 :
            GetCountWithAncestors(s[k]) >= GetCountWithAncestors(s[k + 1])}

\* the package sorted by ancestor count; equal counts are ordered by hash
SortForBlock(package) ==
    {s \in Orderings(package) :
        \A k \in 1 .. Len(s) - 1 :
            GetCountWithAncestors(s[k]) <= GetCountWithAncestors(s[k + 1])}

\* the best entries of mapModifiedTx by ancestor score
BestModified(mapModifiedTx) ==
    {m \in DOMAIN mapModifiedTx :
        \A o \in DOMAIN mapModifiedTx :
            ~CompareTxMemPoolEntryByAncestorFee(
                mapModifiedTx[o], mapModifiedTx[m], FALSE)}

\* lines 379-414: the outputs of the coinbase, and whether vout[2] was
\* written past the end of the vector
CoinbaseOutputs_SplitKept(blockReward, scriptPubKeyIn, govValid, hasOpDest) ==
    LET governanceReward == (blockReward * GOV_BPS) \div BPS_DENOM
        operatorReward ==
            IF hasOpDest THEN (blockReward * OP_BPS) \div BPS_DENOM ELSE 0
        empty == [scriptPubKey |-> "", nValue |-> 0]
        v0 == [k \in 1 .. (IF hasOpDest THEN 3 ELSE 2) |->
                 IF k = 1
                 THEN [scriptPubKey |-> scriptPubKeyIn,
                       nValue |-> blockReward - governanceReward
                                      - operatorReward]
                 ELSE empty]
        v1 == IF govValid
              THEN [v0 EXCEPT ![2] = [scriptPubKey |-> "governance",
                                      nValue |-> governanceReward]]
              ELSE SubSeq(v0, 1, 1)
    IN  IF hasOpDest
        THEN IF Len(v1) >= 3
             THEN [vout |-> [v1 EXCEPT ![3] = [scriptPubKey |-> "operator",
                                               nValue |-> operatorReward]],
                   outOfBounds |-> FALSE]
             ELSE [vout |-> v1, outOfBounds |-> TRUE]
        ELSE [vout |-> v1, outOfBounds |-> FALSE]

\* a coinbase whose operator share is not taken out of the miner's output
CoinbaseOutputs_OperatorOnTop(blockReward, scriptPubKeyIn, govValid, hasOpDest) ==
    LET governanceReward == (blockReward * GOV_BPS) \div BPS_DENOM
        operatorReward ==
            IF hasOpDest THEN (blockReward * OP_BPS) \div BPS_DENOM ELSE 0
        empty == [scriptPubKey |-> "", nValue |-> 0]
        v0 == [k \in 1 .. (IF hasOpDest THEN 3 ELSE 2) |->
                 IF k = 1
                 THEN [scriptPubKey |-> scriptPubKeyIn,
                       nValue |-> blockReward - governanceReward]
                 ELSE empty]
        v1 == IF govValid
              THEN [v0 EXCEPT ![2] = [scriptPubKey |-> "governance",
                                      nValue |-> governanceReward]]
              ELSE <<[scriptPubKey |-> scriptPubKeyIn,
                      nValue |-> blockReward]>>
    IN  IF hasOpDest
        THEN IF Len(v1) >= 3
             THEN [vout |-> [v1 EXCEPT ![3] = [scriptPubKey |-> "operator",
                                               nValue |-> operatorReward]],
                   outOfBounds |-> FALSE]
             ELSE [vout |-> v1, outOfBounds |-> TRUE]
        ELSE [vout |-> v1, outOfBounds |-> FALSE]

CoinbaseOutputs(blockReward, scriptPubKeyIn, govValid, hasOpDest) ==
    LET governanceReward == (blockReward * GOV_BPS) \div BPS_DENOM
        operatorReward ==
            IF hasOpDest THEN (blockReward * OP_BPS) \div BPS_DENOM ELSE 0
        empty == [scriptPubKey |-> "", nValue |-> 0]
        v0 == [k \in 1 .. (IF hasOpDest THEN 3 ELSE 2) |->
                 IF k = 1
                 THEN [scriptPubKey |-> scriptPubKeyIn,
                       nValue |-> blockReward - governanceReward
                                      - operatorReward]
                 ELSE empty]
        v1 == IF govValid
              THEN [v0 EXCEPT ![2] = [scriptPubKey |-> "governance",
                                      nValue |-> governanceReward]]
              ELSE <<[scriptPubKey |-> scriptPubKeyIn,
                      nValue |-> blockReward]>>
    IN  IF hasOpDest
        THEN IF Len(v1) >= 3
             THEN [vout |-> [v1 EXCEPT ![3] = [scriptPubKey |-> "operator",
                                               nValue |-> operatorReward]],
                   outOfBounds |-> FALSE]
             ELSE [vout |-> v1, outOfBounds |-> TRUE]
        ELSE [vout |-> v1, outOfBounds |-> FALSE]

\* BlockAssembler(mempool, params).CreateNewBlock(script) up to the loop of
\* addPackageTxs: the constructor of a new assembler, resetBlock, the height
\* and the witness flag from the tip, the empty modified set and the cursor
\* at the start
CreateNewBlockBegin ==
    /\ asm.pc = "idle"
    /\ \E opt \in BlockMaxWeightOptions, h \in TemplateHeights,
          witnessEnabled \in BOOLEAN :
        asm' = [resetBlock(IdleAssembler) EXCEPT
                  !.pc = "select",
                  !.blockMinFeeRate = DEFAULT_BLOCK_MIN_TX_FEE,
                  !.nBlockMaxWeight = ClampBlockMaxWeight(opt),
                  !.nHeight = h,
                  !.fIncludeWitness = witnessEnabled,
                  !.mapModifiedTx = UpdatePackagesForAdded({}, EmptyMap),
                  !.mi = 1]
    /\ tmpl' = NoTemplate
    /\ UNCHANGED <<mempool, mapTxOrder, adjustedTime, ledgerVars, minerVars,
                   powVars>>

\* a failed package that is remembered as failed wherever it was taken from
PackageFailed_RecordsAll(a, iter, fUsingModified) ==
    [a EXCEPT !.mapModifiedTx = MapErase(@, iter),
              !.failedTx = @ \cup {iter}]

\* a failed package whose entry stays in the modified set
PackageFailed_EntryKept(a, iter, fUsingModified) ==
    IF fUsingModified
    THEN [a EXCEPT !.failedTx = @ \cup {iter}]
    ELSE a

\* a failed package: a modified entry is erased and remembered as failed
PackageFailed(a, iter, fUsingModified) ==
    IF fUsingModified
    THEN [a EXCEPT !.mapModifiedTx = MapErase(@, iter),
                   !.failedTx = @ \cup {iter}]
    ELSE a

\* a failure that counts: the loop is left after too many of them in a row
\* once the block is nearly full
CountFailure(a) ==
    LET n == a.nConsecutiveFailed + 1
    IN  [a EXCEPT !.nConsecutiveFailed = n,
                  !.pc = IF n > MAX_CONSECUTIVE_FAILURES
                            /\ a.nBlockWeight > a.nBlockMaxWeight - 4000
                         THEN "coinbase" ELSE "select"]

RECURSIVE AddSorted(_, _)
AddSorted(b, sortedEntries) ==
    IF sortedEntries = <<>> THEN b
    ELSE LET added == AddToBlock(b, Head(sortedEntries))
         IN  AddSorted(
                 [added EXCEPT
                    !.asm.mapModifiedTx = MapErase(@, Head(sortedEntries))],
                 Tail(sortedEntries))

\* one pass through the loop of addPackageTxs
addPackageTxs ==
    /\ asm.pc = "select"
    /\ UNCHANGED <<mempool, mapTxOrder, adjustedTime, ledgerVars, minerVars,
                   powVars>>
    /\ LET atEnd == asm.mi > Len(mapTxOrder)
           noModified == DOMAIN asm.mapModifiedTx = {}
       IN
       IF atEnd /\ noModified
       THEN /\ asm' = [asm EXCEPT !.pc = "coinbase"]
            /\ UNCHANGED tmpl
       ELSE IF ~atEnd /\ SkipMapTxEntry(asm, mapTxOrder[asm.mi])
       THEN /\ asm' = [asm EXCEPT !.mi = @ + 1]
            /\ UNCHANGED tmpl
       ELSE
        \E modit \in (IF noModified THEN {0}
                      ELSE BestModified(asm.mapModifiedTx)),
           hashLess \in BOOLEAN :
         LET fUsingModified ==
                \/ atEnd
                \/ /\ ~noModified
                   /\ CompareTxMemPoolEntryByAncestorFee(
                          asm.mapModifiedTx[modit],
                          CTxMemPoolModifiedEntry(mapTxOrder[asm.mi]),
                          hashLess)
             iter == IF fUsingModified THEN modit ELSE mapTxOrder[asm.mi]
             a1 == IF fUsingModified THEN asm ELSE [asm EXCEPT !.mi = @ + 1]
             package == IF fUsingModified THEN asm.mapModifiedTx[modit]
                        ELSE CTxMemPoolModifiedEntry(iter)
             packageSize == package.nSizeWithAncestors
             packageFees == package.nModFeesWithAncestors
             packageSigOpsCost == package.nSigOpCostWithAncestors
             ancestors ==
                onlyUnconfirmed(a1, CalculateMemPoolAncestors(iter))
                    \cup {iter}
         IN
         IF iter \in asm.inBlock
         THEN /\ asm' = [a1 EXCEPT !.pc = "assert"]
              /\ UNCHANGED tmpl
         ELSE IF packageFees < GetFee(asm.blockMinFeeRate, packageSize)
         THEN /\ asm' = CountFailure(PackageFailed(a1, iter, fUsingModified))
              /\ UNCHANGED tmpl
         ELSE IF ~TestPackage(a1, packageSize, packageSigOpsCost)
         THEN /\ asm' = CountFailure(PackageFailed(a1, iter, fUsingModified))
              /\ UNCHANGED tmpl
         ELSE IF ~TestPackageTransactions(a1, ancestors)
         THEN /\ asm' = PackageFailed(a1, iter, fUsingModified)
              /\ UNCHANGED tmpl
         ELSE
          \E sortedEntries \in SortForBlock(ancestors) :
            LET b == AddSorted(
                        [asm |-> [a1 EXCEPT !.nConsecutiveFailed = 0],
                         tmpl |-> tmpl],
                        sortedEntries)
            IN  /\ asm' = [b.asm EXCEPT
                             !.mapModifiedTx =
                                 UpdatePackagesForAdded(ancestors, @)]
                /\ tmpl' = b.tmpl

\* a coinbase step whose burn window ends one block early
CreateNewBlockCoinbase_BurnEndsEarly ==
    /\ asm.pc = "coinbase"
    /\ UNCHANGED <<mempool, mapTxOrder, adjustedTime, ledgerVars, minerVars,
                   powVars>>
    /\ \E subsidy \in Subsidies, govValid \in BOOLEAN, hasOpDest \in BOOLEAN :
        LET burn_fees ==
                asm.nHeight >= 1 /\ asm.nHeight < nFeeBurnEndHeight
            blockReward == subsidy + (IF burn_fees THEN 0 ELSE asm.nFees)
            cb == CoinbaseOutputs(blockReward, "miner", govValid, hasOpDest)
            a1 == [asm EXCEPT !.subsidy = subsidy, !.govValid = govValid,
                              !.hasOpDest = hasOpDest]
        IN  \/ /\ cb.outOfBounds
               /\ asm' = [a1 EXCEPT !.pc = "aborted"]
               /\ UNCHANGED tmpl
            \/ \E valid \in BOOLEAN :
                 /\ asm' = [a1 EXCEPT
                               !.pc = IF valid THEN "returned" ELSE "threw"]
                 /\ tmpl' = [tmpl EXCEPT
                      !.vout = IF asm.fIncludeWitness
                               THEN Append(cb.vout,
                                           [scriptPubKey |-> "commitment",
                                            nValue |-> 0])
                               ELSE cb.vout,
                      !.vTxFees0 = IF burn_fees THEN 0 ELSE -asm.nFees,
                      !.nTime = UpdateTime(InitialBlockTime(asm.nHeight,
                                                            adjustedTime[1]),
                                           adjustedTime[2])]

\* CreateNewBlock from the coinbase to its end: the coinbase and its
\* commitment, then TestBlockValidity, after which the template is returned
\* or std::runtime_error is thrown.  With an invalid governance address and
\* a valid operator address vout[2] is written past the end of the
\* one-element vector: the write goes unnoticed, or a checked operator[]
\* aborts the process
CreateNewBlockCoinbase ==
    /\ asm.pc = "coinbase"
    /\ UNCHANGED <<mempool, mapTxOrder, adjustedTime, ledgerVars, minerVars,
                   powVars>>
    /\ \E subsidy \in Subsidies, govValid \in BOOLEAN, hasOpDest \in BOOLEAN :
        LET burn_fees ==
                asm.nHeight >= 1 /\ asm.nHeight <= nFeeBurnEndHeight
            blockReward == subsidy + (IF burn_fees THEN 0 ELSE asm.nFees)
            cb == CoinbaseOutputs(blockReward, "miner", govValid, hasOpDest)
            a1 == [asm EXCEPT !.subsidy = subsidy, !.govValid = govValid,
                              !.hasOpDest = hasOpDest]
        IN  \/ /\ cb.outOfBounds
               /\ asm' = [a1 EXCEPT !.pc = "aborted"]
               /\ UNCHANGED tmpl
            \/ \E valid \in BOOLEAN :
                 /\ asm' = [a1 EXCEPT
                               !.pc = IF valid THEN "returned" ELSE "threw"]
                 /\ tmpl' = [tmpl EXCEPT
                      !.vout = IF asm.fIncludeWitness
                               THEN Append(cb.vout,
                                           [scriptPubKey |-> "commitment",
                                            nValue |-> 0])
                               ELSE cb.vout,
                      !.vTxFees0 = IF burn_fees THEN 0 ELSE -asm.nFees,
                      !.nTime = UpdateTime(InitialBlockTime(asm.nHeight,
                                                            adjustedTime[1]),
                                           adjustedTime[2])]

NextAssembler ==
    \/ CreateNewBlockBegin
    \/ addPackageTxs
    \/ CreateNewBlockCoinbase

(***************************************************************************)
(* Token operations.  A TokenOperation is a record of its fields; a        *)
(* signature is the key that made it and the message it was made over.     *)
(***************************************************************************)
Addr == {"A", "B"}

Tokens == {"T", "U"}

Other(a) == IF a = "A" THEN "B" ELSE "A"

NoSig == [key |-> "", msg |-> ""]

\* the canonical message string: every field but signer and signature
BuildTokenMsg(op) ==
    <<op.op, op.from, op.to, op.spender, op.token, op.amount,
      op.name, op.symbol, op.decimals, op.timestamp>>

\* MessageVerify: the signature recovers to the signer's key over this message
MessageVerify(signer, signature, message) ==
    signature.key = signer /\ signature.msg = message

\* DecodeDestination + IsValidDestination: only well-formed addresses decode
IsValidDestination(a) == a \in Addr

Expected(op) == IF op.op = "TRANSFERFROM" THEN op.spender ELSE op.from

\* a check that accepts a valid signature of any signer
VerifySignature_AnySigner(op) ==
    IF ~IsValidDestination(op.signer) THEN FALSE
    ELSE IF ~MessageVerify(op.signer, op.signature, BuildTokenMsg(op)) THEN FALSE
    ELSE TRUE

VerifySignature(op) ==
    IF ~IsValidDestination(op.signer) THEN FALSE
    ELSE IF ~MessageVerify(op.signer, op.signature, BuildTokenMsg(op)) THEN FALSE
    ELSE IF op.signer # Expected(op) THEN FALSE
    ELSE TRUE

\* SerializeHash of the operation with signer and signature cleared
TokenOperationHash(op) == [op EXCEPT !.signature = NoSig, !.signer = ""]

(***************************************************************************)
(* The ledger.  Every mutator returns the ledger it leaves behind and,     *)
(* where the C++ returns bool, the result.                                 *)
(***************************************************************************)
EmptyLedger ==
    [m_balances |-> EmptyMap, m_allowances |-> EmptyMap,
     m_totalSupply |-> EmptyMap, m_token_meta |-> EmptyMap,
     m_history |-> EmptyMap, m_seen_ops |-> {},
     m_governance_fees |-> 0, m_tip_height |-> 0]

Balance(L, wallet, token) == MapGet(L.m_balances, <<wallet, token>>)

Allowance(L, owner, spender, token) ==
    MapGet(L.m_allowances, <<owner, spender, token>>)

TotalSupply(L, token) == MapGet(L.m_totalSupply, token)

RegisterToken(L, token, name, symbol, decimals, owner, height) ==
    [L EXCEPT !.m_token_meta =
        MapPut(@, token, [name |-> name, symbol |-> symbol, decimals |-> decimals,
                          operator_wallet |-> owner, creation_height |-> height])]

CreateToken(L, wallet, token, amount, name, symbol, decimals, height) ==
    LET L1 == [L EXCEPT
                 !.m_balances = MapPut(@, <<wallet, token>>,
                                       MapGet(@, <<wallet, token>>) + amount),
                 !.m_totalSupply = MapPut(@, token, MapGet(@, token) + amount)]
    IN IF token \notin DOMAIN L1.m_token_meta
       THEN RegisterToken(L1, token, name, symbol, decimals, wallet, height)
       ELSE L1

Approve(L, owner, spender, token, amount) ==
    [L EXCEPT !.m_allowances = MapPut(@, <<owner, spender, token>>, amount)]

IncreaseAllowance(L, owner, spender, token, amount) ==
    [L EXCEPT !.m_allowances =
        MapPut(@, <<owner, spender, token>>,
               MapGet(@, <<owner, spender, token>>) + amount)]

DecreaseAllowance(L, owner, spender, token, amount) ==
    LET key == <<owner, spender, token>>
        val == MapGet(L.m_allowances, key)
    IN IF val <= amount
       THEN [L EXCEPT !.m_allowances = MapErase(@, key)]
       ELSE [L EXCEPT !.m_allowances = MapPut(@, key, val - amount)]

Transfer(L, from, to, token, amount) ==
    LET b0 == MapTouch(L.m_balances, <<from, token>>)
        from_bal == b0[<<from, token>>]
        b1 == MapPut(b0, <<from, token>>, from_bal - amount)
        b2 == MapPut(b1, <<to, token>>, MapGet(b1, <<to, token>>) + amount)
    IN IF from_bal < amount
       THEN [ok |-> FALSE, L |-> [L EXCEPT !.m_balances = b0]]
       ELSE [ok |-> TRUE, L |-> [L EXCEPT !.m_balances = b2]]

\* a TransferFrom that checks the balance and not the allowance
TransferFrom_AllowanceUnchecked(L, spender, from, to, token, amount) ==
    LET key == <<from, spender, token>>
        b0 == MapTouch(L.m_balances, <<from, token>>)
        from_bal == b0[<<from, token>>]
        b1 == MapPut(b0, <<from, token>>, from_bal - amount)
        b2 == MapPut(b1, <<to, token>>, MapGet(b1, <<to, token>>) + amount)
    IN IF from_bal < amount
       THEN [ok |-> FALSE, L |-> [L EXCEPT !.m_balances = b0]]
       ELSE [ok |-> TRUE,
             L |-> [L EXCEPT !.m_balances = b2,
                             !.m_allowances =
                                 MapPut(@, key, MapGet(@, key) - amount)]]

TransferFrom(L, spender, from, to, token, amount) ==
    LET key == <<from, spender, token>>
        b0 == MapTouch(L.m_balances, <<from, token>>)
        from_bal == b0[<<from, token>>]
        b1 == MapPut(b0, <<from, token>>, from_bal - amount)
        b2 == MapPut(b1, <<to, token>>, MapGet(b1, <<to, token>>) + amount)
    IN IF key \notin DOMAIN L.m_allowances \/ L.m_allowances[key] < amount
       THEN [ok |-> FALSE, L |-> L]
       ELSE IF from_bal < amount
       THEN [ok |-> FALSE, L |-> [L EXCEPT !.m_balances = b0]]
       ELSE [ok |-> TRUE,
             L |-> [L EXCEPT !.m_balances = b2,
                             !.m_allowances = MapPut(@, key, @[key] - amount)]]

\* Burn that debits the balance and leaves the total supply alone
Burn_SupplyKept(L, wallet, token, amount) ==
    LET b0 == MapTouch(L.m_balances, <<wallet, token>>)
        bal == b0[<<wallet, token>>]
    IN IF token \notin DOMAIN L.m_token_meta
       THEN [ok |-> FALSE, L |-> L]
       ELSE IF bal < amount
       THEN [ok |-> FALSE, L |-> [L EXCEPT !.m_balances = b0]]
       ELSE [ok |-> TRUE,
             L |-> [L EXCEPT
                      !.m_balances = MapPut(b0, <<wallet, token>>, bal - amount)]]

Burn(L, wallet, token, amount) ==
    LET b0 == MapTouch(L.m_balances, <<wallet, token>>)
        bal == b0[<<wallet, token>>]
    IN IF token \notin DOMAIN L.m_token_meta
       THEN [ok |-> FALSE, L |-> L]
       ELSE IF bal < amount
       THEN [ok |-> FALSE, L |-> [L EXCEPT !.m_balances = b0]]
       ELSE [ok |-> TRUE,
             L |-> [L EXCEPT
                      !.m_balances = MapPut(b0, <<wallet, token>>, bal - amount),
                      !.m_totalSupply = MapPut(@, token, MapGet(@, token) - amount)]]

Mint(L, wallet, token, amount) ==
    IF token \notin DOMAIN L.m_token_meta
    THEN [ok |-> FALSE, L |-> L]
    ELSE [ok |-> TRUE,
          L |-> [L EXCEPT
                   !.m_balances = MapPut(@, <<wallet, token>>,
                                         MapGet(@, <<wallet, token>>) + amount),
                   !.m_totalSupply = MapPut(@, token, MapGet(@, token) + amount)]]

\* a TransferOwnership that any caller may make
TransferOwnership_AnyCaller(L, from, to, token) ==
    IF token \notin DOMAIN L.m_token_meta
    THEN [ok |-> FALSE, L |-> L]
    ELSE [ok |-> TRUE,
          L |-> [L EXCEPT !.m_token_meta =
                    MapPut(@, token, [@[token] EXCEPT !.operator_wallet = to])]]

TransferOwnership(L, from, to, token) ==
    IF token \notin DOMAIN L.m_token_meta
       \/ L.m_token_meta[token].operator_wallet # from
    THEN [ok |-> FALSE, L |-> L]
    ELSE [ok |-> TRUE,
          L |-> [L EXCEPT !.m_token_meta =
                    MapPut(@, token, [@[token] EXCEPT !.operator_wallet = to])]]

\* the switch (op.op) shared by ApplyOperation and ReplayOperation; `early'
\* marks the return false taken inside the BURN and MINT cases
Dispatch(L, op, height) ==
    CASE op.op = "CREATE" ->
           [ok |-> TRUE, early |-> FALSE,
            L |-> CreateToken(L, op.from, op.token, op.amount, op.name,
                              op.symbol, op.decimals, height)]
      [] op.op = "TRANSFER" ->
           LET r == Transfer(L, op.from, op.to, op.token, op.amount)
           IN [ok |-> r.ok, early |-> FALSE, L |-> r.L]
      [] op.op = "APPROVE" ->
           [ok |-> TRUE, early |-> FALSE,
            L |-> Approve(L, op.from, op.to, op.token, op.amount)]
      [] op.op = "TRANSFERFROM" ->
           LET r == TransferFrom(L, op.spender, op.from, op.to, op.token, op.amount)
           IN [ok |-> r.ok, early |-> FALSE, L |-> r.L]
      [] op.op = "INCREASE_ALLOWANCE" ->
           [ok |-> TRUE, early |-> FALSE,
            L |-> IncreaseAllowance(L, op.from, op.to, op.token, op.amount)]
      [] op.op = "DECREASE_ALLOWANCE" ->
           [ok |-> TRUE, early |-> FALSE,
            L |-> DecreaseAllowance(L, op.from, op.to, op.token, op.amount)]
      [] op.op = "BURN" ->
           IF op.token \notin DOMAIN L.m_token_meta
           THEN [ok |-> FALSE, early |-> TRUE, L |-> L]
           ELSE LET r == Burn(L, op.from, op.token, op.amount)
                IN [ok |-> r.ok, early |-> FALSE, L |-> r.L]
      [] op.op = "MINT" ->
           IF op.token \notin DOMAIN L.m_token_meta
              \/ L.m_token_meta[op.token].operator_wallet # op.from
           THEN [ok |-> FALSE, early |-> TRUE, L |-> L]
           ELSE LET r == Mint(L, op.from, op.token, op.amount)
                IN [ok |-> r.ok, early |-> FALSE, L |-> r.L]
      [] op.op = "TRANSFER_OWNERSHIP" ->
           LET r == TransferOwnership(L, op.from, op.to, op.token)
           IN [ok |-> r.ok, early |-> FALSE, L |-> r.L]

\* a history that records the newest operation first
HistoryAppend_Front(L, op) ==
    [L EXCEPT !.m_history =
        MapPut(@, op.token,
               IF op.token \in DOMAIN @ THEN <<op>> \o @[op.token] ELSE <<op>>)]

HistoryAppend(L, op) ==
    [L EXCEPT !.m_history =
        MapPut(@, op.token,
               IF op.token \in DOMAIN @ THEN Append(@[op.token], op) ELSE <<op>>)]

\* a replay that does not consult m_seen_ops
ReplayOperation_NoSeenCheck(L, op, height) ==
    IF ~VerifySignature(op) THEN [ok |-> FALSE, L |-> L]
    ELSE LET L1 == [L EXCEPT !.m_seen_ops = @ \cup {TokenOperationHash(op)}]
             d == Dispatch(L1, op, height)
         IN IF d.ok THEN [ok |-> TRUE, L |-> HistoryAppend(d.L, op)]
            ELSE [ok |-> FALSE, L |-> d.L]

\* ReplayOperation(op, height): result and the ledger left behind
ReplayOperation(L, op, height) ==
    IF ~VerifySignature(op) THEN [ok |-> FALSE, L |-> L]
    ELSE IF TokenOperationHash(op) \in L.m_seen_ops THEN [ok |-> FALSE, L |-> L]
    ELSE LET L1 == [L EXCEPT !.m_seen_ops = @ \cup {TokenOperationHash(op)}]
             d == Dispatch(L1, op, height)
         IN IF d.ok THEN [ok |-> TRUE, L |-> HistoryAppend(d.L, op)]
            ELSE [ok |-> FALSE, L |-> d.L]

\* GetSerializeSize(op, PROTOCOL_VERSION): one length byte per string, the
\* fixed-width fields, and the memo-present flag
GetSerializeSize(op) ==
    LET S(str) == 1 + (IF str = "" THEN 0 ELSE 42) IN
    1 + S(op.from) + S(op.to) + S(op.spender) + (1 + 59) + 8
      + S(op.name) + S(op.symbol) + 1 + 8 + S(op.signer) + (1 + 88) + 1

\* The fee charged by ApplyOperation.  CAmount is 64 bits wide and the fee of a
\* CREATE does not fit TLC's integers, so governance fees are counted in units
\* of 10000 base units; the two rates and the floor are multiples of it.
GovernanceFee(op) ==
    LET vsize == GetSerializeSize(op)
        rate == IF op.op = "CREATE" THEN TOKEN_CREATE_FEE_PER_VBYTE \div 10000
                ELSE TOKEN_DEFAULT_FEE_PER_VBYTE \div 10000
        fee == vsize * rate
        floor == TOKEN_MIN_GOV_FEE \div 10000
    IN IF fee < floor THEN floor ELSE fee

\* an ApplyOperation that records in the history only what it broadcasts
ApplyOperation_OfflineUnrecorded(L, op, wallet_name, broadcast, sendOk, height) ==
    IF ~VerifySignature(op) THEN [ok |-> FALSE, L |-> L, flushed |-> FALSE]
    ELSE IF TokenOperationHash(op) \in L.m_seen_ops
    THEN [ok |-> FALSE, L |-> L, flushed |-> FALSE]
    ELSE LET L1 == [L EXCEPT !.m_seen_ops = @ \cup {TokenOperationHash(op)}]
             d == Dispatch(L1, op, height)
             charged == broadcast /\ wallet_name # "" /\ sendOk
             L2 == IF charged
                   THEN [d.L EXCEPT !.m_governance_fees = @ + GovernanceFee(op)]
                   ELSE d.L
         IN IF d.ok
            THEN [ok |-> TRUE,
                  L |-> IF broadcast THEN HistoryAppend(L2, op) ELSE L2,
                  flushed |-> TRUE]
            ELSE [ok |-> FALSE, L |-> d.L, flushed |-> FALSE]

\* ApplyOperation(op, wallet_name, broadcast): sendOk is what SendGovernanceFee
\* returns when it is called, height is ::ChainActive().Height();
\* `flushed' tells whether Flush() ran
ApplyOperation(L, op, wallet_name, broadcast, sendOk, height) ==
    IF ~VerifySignature(op) THEN [ok |-> FALSE, L |-> L, flushed |-> FALSE]
    ELSE IF TokenOperationHash(op) \in L.m_seen_ops
    THEN [ok |-> FALSE, L |-> L, flushed |-> FALSE]
    ELSE LET L1 == [L EXCEPT !.m_seen_ops = @ \cup {TokenOperationHash(op)}]
             d == Dispatch(L1, op, height)
             charged == broadcast /\ wallet_name # "" /\ sendOk
             L2 == IF charged
                   THEN [d.L EXCEPT !.m_governance_fees = @ + GovernanceFee(op)]
                   ELSE d.L
         IN IF d.ok
            THEN [ok |-> TRUE, L |-> HistoryAppend(L2, op), flushed |-> TRUE]
            ELSE [ok |-> FALSE, L |-> d.L, flushed |-> FALSE]

(***************************************************************************)
(* Persistence: Flush writes ('s', state) and ('v', TOKEN_DB_VERSION);     *)
(* m_seen_ops is not part of the persisted state.                          *)
(***************************************************************************)
NoState == [version |-> 0]

EmptyDb == [v |-> 0, s |-> NoState]

LedgerState(L) ==
    [balances |-> L.m_balances, allowances |-> L.m_allowances,
     totalSupply |-> L.m_totalSupply, token_meta |-> L.m_token_meta,
     history |-> L.m_history, governance_fees |-> L.m_governance_fees,
     tip_height |-> L.m_tip_height, version |-> TOKEN_DB_VERSION]

Flush(L) == [v |-> TOKEN_DB_VERSION, s |-> LedgerState(L)]

\* a Load that accepts every version
Load_AnyVersion(L, d) ==
    LET state == d.s
    IN IF state = NoState THEN [ok |-> FALSE, L |-> L, db |-> d]
       ELSE [ok |-> TRUE,
             L |-> [L EXCEPT !.m_balances = state.balances,
                             !.m_allowances = state.allowances,
                             !.m_totalSupply = state.totalSupply,
                             !.m_token_meta = state.token_meta,
                             !.m_history = state.history,
                             !.m_governance_fees = state.governance_fees,
                             !.m_tip_height = state.tip_height],
             db |-> d]

\* Load(): d.v is what Read('v') gives (0 when the key is absent), d.s what
\* Read('s') gives (NoState when it fails); a store older than the current
\* version is rewritten; m_seen_ops is not touched
Load(L, d) ==
    LET version == d.v
        state == d.s
    IN IF state = NoState THEN [ok |-> FALSE, L |-> L, db |-> d]
       ELSE IF version > TOKEN_DB_VERSION THEN [ok |-> FALSE, L |-> L, db |-> d]
       ELSE [ok |-> TRUE,
             L |-> [L EXCEPT !.m_balances = state.balances,
                             !.m_allowances = state.allowances,
                             !.m_totalSupply = state.totalSupply,
                             !.m_token_meta = state.token_meta,
                             !.m_history = state.history,
                             !.m_governance_fees = state.governance_fees,
                             !.m_tip_height = IF state.tip_height = 0
                                              THEN TokenActivationHeight - 1
                                              ELSE state.tip_height],
             db |-> IF version < TOKEN_DB_VERSION
                    THEN [v |-> TOKEN_DB_VERSION,
                          s |-> [state EXCEPT !.version = TOKEN_DB_VERSION]]
                    ELSE d]

(***************************************************************************)
(* The operations the callers submit.                                      *)
(***************************************************************************)
MkOp(kind, from, to, spender, token, amount) ==
    [op |-> kind, from |-> from, to |-> to, spender |-> spender, token |-> token,
     amount |-> amount, name |-> "N", symbol |-> "S", decimals |-> 8,
     timestamp |-> 1, signer |-> "", signature |-> NoSig]

\* SignTokenOperation with the key of address `key'
Sign(o, key) ==
    [o EXCEPT !.signer = key, !.signature = [key |-> key, msg |-> BuildTokenMsg(o)]]

UnsignedOps ==
    { MkOp("CREATE", "A", "", "", "T", 2),
      MkOp("CREATE", "B", "", "", "T", 1),
      MkOp("CREATE", "B", "", "", "U", 1),
      MkOp("TRANSFER", "A", "B", "", "T", 1),
      MkOp("TRANSFER", "B", "A", "", "T", 2),
      MkOp("TRANSFER", "B", "A", "", "U", 1),
      MkOp("TRANSFER", "A", "B", "", "T", -1),
      MkOp("APPROVE", "A", "B", "", "T", 1),
      MkOp("TRANSFERFROM", "A", "B", "B", "T", 1),
      MkOp("TRANSFERFROM", "A", "B", "B", "T", 2),
      MkOp("INCREASE_ALLOWANCE", "A", "B", "", "T", 1),
      MkOp("DECREASE_ALLOWANCE", "A", "B", "", "T", 1),
      MkOp("BURN", "A", "", "", "T", 1),
      MkOp("BURN", "B", "", "", "T", 1),
      MkOp("MINT", "A", "", "", "T", 1),
      MkOp("MINT", "B", "", "", "T", 1),
      MkOp("TRANSFER_OWNERSHIP", "A", "B", "", "T", 0),
      MkOp("TRANSFER_OWNERSHIP", "B", "A", "", "T", 0) }

\* signed by the acting party
GoodOps == {Sign(o, Expected(o)) : o \in UnsignedOps}

\* a signature of somebody else's key, the right signature under a signer
\* who is not the acting party, and no signer at all
BadOps ==
    LET o == MkOp("TRANSFER", "A", "B", "", "T", 1) IN
    { [Sign(o, "A") EXCEPT !.signature.key = "B"], Sign(o, "B"), o }

OpInputs == GoodOps \cup BadOps

(***************************************************************************)
(* Ledger entry points as actions.                                         *)
(***************************************************************************)
Height == Len(chain) - 1

GenesisChain == << <<>> >>

LedgerInit ==
    /\ ledger = EmptyLedger
    /\ db = EmptyDb
    /\ chain = GenesisChain
    /\ call = [fn |-> "none"]
    /\ ret = TRUE
    /\ nCalls = 0

\* wallet_name, broadcast and the outcome of SendGovernanceFee
ApplyInputs ==
    { [wallet_name |-> "", broadcast |-> FALSE, sendOk |-> FALSE],
      [wallet_name |-> "w", broadcast |-> TRUE, sendOk |-> FALSE],
      [wallet_name |-> "w", broadcast |-> TRUE, sendOk |-> TRUE] }

ApplyOperationAct ==
    /\ nCalls < MaxCalls
    /\ \E op \in OpInputs, in \in ApplyInputs :
         LET r == ApplyOperation(ledger, op, in.wallet_name, in.broadcast,
                                 in.sendOk, Height)
         IN /\ ledger' = r.L
            /\ db' = IF r.flushed THEN Flush(r.L) ELSE db
            /\ ret' = r.ok
            /\ call' = [fn |-> "ApplyOperation", op |-> op]
    /\ nCalls' = nCalls + 1
    /\ UNCHANGED <<chain, minerVars, asmVars, powVars>>

ReplayOperationAct ==
    /\ nCalls < MaxCalls
    /\ \E op \in OpInputs :
         LET r == ReplayOperation(ledger, op, Height)
         IN /\ ledger' = r.L
            /\ ret' = r.ok
            /\ call' = [fn |-> "ReplayOperation", op |-> op]
    /\ nCalls' = nCalls + 1
    /\ UNCHANGED <<db, chain, minerVars, asmVars, powVars>>

NextLedger == ApplyOperationAct \/ ReplayOperationAct

(***************************************************************************)
(* The ledger as a follower of the chain: ProcessBlock on BlockConnected,  *)
(* RescanFromHeight on BlockDisconnected and on request.                   *)
(* A block is the sequence of its transaction outputs, in block and        *)
(* transaction order; an output either is an OP_RETURN with one data push  *)
(* that deserialises as a TokenOperation, or it is not.                    *)
(***************************************************************************)
TokenOut(op) == [opreturn |-> TRUE, op |-> op]

PlainOut == [opreturn |-> FALSE, op |-> MkOp("CREATE", "", "", "", "", 0)]

\* DecodeTokenOp: whether the script decodes, the operation is out.op
DecodeTokenOp(out) == out.opreturn

\* ProcessBlock / RescanFromHeight inner loops: replay the decodable outputs
RECURSIVE ReplayOutputs(_, _, _)
ReplayOutputs(L, outs, height) ==
    IF outs = <<>> THEN L
    ELSE IF DecodeTokenOp(Head(outs))
         THEN ReplayOutputs(ReplayOperation(L, Head(outs).op, height).L,
                            Tail(outs), height)
         ELSE ReplayOutputs(L, Tail(outs), height)

\* ProcessBlock(block, height), before its Flush
ProcessBlock(L, block, height) ==
    [ReplayOutputs(L, block, height) EXCEPT !.m_tip_height = height]

\* for (h = from; h <= ::ChainActive().Height(); ++h) of RescanFromHeight
RECURSIVE RescanLoop(_, _, _)
RescanLoop(L, c, h) ==
    IF h > Len(c) - 1 THEN L
    ELSE RescanLoop(ReplayOutputs(L, c[h + 1], h), c, h + 1)

\* RescanFromHeight(from_height) over the active chain c, before its Flush
RescanFromHeight(L, c, from_height) ==
    LET from == IF from_height < TokenActivationHeight
                THEN TokenActivationHeight ELSE from_height
        cleared == [L EXCEPT !.m_balances = EmptyMap, !.m_allowances = EmptyMap,
                             !.m_totalSupply = EmptyMap, !.m_token_meta = EmptyMap,
                             !.m_history = EmptyMap, !.m_seen_ops = {},
                             !.m_governance_fees = 0]
    IN [RescanLoop(cleared, c, from) EXCEPT !.m_tip_height = Len(c) - 1]

BlockInputs ==
    LET create == Sign(MkOp("CREATE", "A", "", "", "T", 2), "A")
        send == Sign(MkOp("TRANSFER", "A", "B", "", "T", 1), "A")
        approve == Sign(MkOp("APPROVE", "A", "B", "", "T", 1), "A")
        pull == Sign(MkOp("TRANSFERFROM", "A", "B", "B", "T", 1), "B")
        createU == Sign(MkOp("CREATE", "B", "", "", "U", 1), "B")
    IN { <<PlainOut>>,
         <<PlainOut, TokenOut(create)>>,
         <<PlainOut, TokenOut(send), TokenOut(approve)>>,
         <<PlainOut, TokenOut(pull), PlainOut, TokenOut(createU)>>,
         <<PlainOut, TokenOut(create), TokenOut(send)>> }

\* BlockConnected: the block becomes the tip and ProcessBlock replays it
BlockConnected ==
    /\ Len(chain) - 1 < MaxHeight
    /\ \E block \in BlockInputs :
         LET height == Len(chain)
             L == ProcessBlock(ledger, block, height)
         IN /\ chain' = Append(chain, block)
            /\ ledger' = L
            /\ db' = Flush(L)
            /\ call' = [fn |-> "ProcessBlock", height |-> height]
    /\ ret' = TRUE
    /\ UNCHANGED <<nCalls, minerVars, asmVars, powVars>>

\* BlockDisconnected: the tip is taken off the chain and the ledger rescans
\* from the height of the disconnected block
BlockDisconnected ==
    /\ Len(chain) > 1
    /\ LET height == Len(chain) - 1
           c == SubSeq(chain, 1, Len(chain) - 1)
           L == RescanFromHeight(ledger, c, height)
       IN /\ chain' = c
          /\ ledger' = L
          /\ db' = Flush(L)
          /\ call' = [fn |-> "BlockDisconnected", height |-> height]
    /\ ret' = TRUE
    /\ UNCHANGED <<nCalls, minerVars, asmVars, powVars>>

\* an explicit RescanFromHeight(h)
RescanFromHeightAct ==
    /\ \E h \in 0..MaxHeight :
         LET L == RescanFromHeight(ledger, chain, h)
         IN /\ ledger' = L
            /\ db' = Flush(L)
            /\ call' = [fn |-> "RescanFromHeight", height |-> h]
    /\ ret' = TRUE
    /\ UNCHANGED <<chain, nCalls, minerVars, asmVars, powVars>>

NextChain == BlockConnected \/ BlockDisconnected \/ RescanFromHeightAct

(***************************************************************************)
(* The ledger as other threads see it.  ProcessBlock and RescanFromHeight  *)
(* take m_mutex once per decoded operation, RescanFromHeight once more for *)
(* the clearing and both once more for the tip height and the Flush; a     *)
(* state of this part is a moment at which m_mutex is free, and `call'     *)
(* holds the call in progress and what a reader thread last read.          *)
(***************************************************************************)
NoRead == [wallet |-> "", token |-> "", value |-> 0]

\* no ProcessBlock or RescanFromHeight is in progress
NoCallRunning == IF call.fn = "none" THEN TRUE ELSE call.pc = "returned"

CallRunning == call.fn \in {"ProcessBlock", "RescanFromHeight"} /\ call.pc = "loop"

\* the outputs of the blocks of heights h .. tip of chain c, each with the
\* height it is replayed at, in the order the loops visit them
RECURSIVE OutputsFrom(_, _)
OutputsFrom(c, h) ==
    IF h > Len(c) - 1 THEN <<>>
    ELSE [k \in 1 .. Len(c[h + 1]) |-> [out |-> c[h + 1][k], height |-> h]]
             \o OutputsFrom(c, h + 1)

\* BlockConnected: ProcessBlock(block, height) is entered
ProcessBlockEnter ==
    /\ NoCallRunning
    /\ Len(chain) - 1 < MaxHeight
    /\ \E block \in BlockInputs :
         LET height == Len(chain) IN
         /\ chain' = Append(chain, block)
         /\ call' = [fn |-> "ProcessBlock", pc |-> "loop", height |-> height,
                     pending |-> [k \in 1 .. Len(block) |->
                                      [out |-> block[k], height |-> height]],
                     before |-> ledger, read |-> NoRead]
    /\ UNCHANGED <<ledger, db, ret, nCalls, minerVars, asmVars, powVars>>

\* RescanFromHeight(from_height) is entered and runs its first locked block,
\* which clears the members
RescanFromHeightClear ==
    /\ NoCallRunning
    /\ \E from_height \in 0 .. MaxHeight :
         LET from == IF from_height < TokenActivationHeight
                     THEN TokenActivationHeight ELSE from_height
         IN /\ ledger' = [ledger EXCEPT
                            !.m_balances = EmptyMap, !.m_allowances = EmptyMap,
                            !.m_totalSupply = EmptyMap, !.m_token_meta = EmptyMap,
                            !.m_history = EmptyMap, !.m_seen_ops = {},
                            !.m_governance_fees = 0]
            /\ call' = [fn |-> "RescanFromHeight", pc |-> "loop",
                        height |-> from_height,
                        pending |-> OutputsFrom(chain, from),
                        before |-> ledger, read |-> NoRead]
    /\ UNCHANGED <<db, chain, ret, nCalls, minerVars, asmVars, powVars>>

\* one pass of the inner loop of either function: an output that decodes is
\* replayed under LOCK(m_mutex)
ReplayNextOutput ==
    /\ CallRunning
    /\ call.pending # <<>>
    /\ LET next == Head(call.pending) IN
       ledger' = IF DecodeTokenOp(next.out)
                 THEN ReplayOperation(ledger, next.out.op, next.height).L
                 ELSE ledger
    /\ call' = [call EXCEPT !.pending = Tail(@)]
    /\ UNCHANGED <<db, chain, ret, nCalls, minerVars, asmVars, powVars>>

\* after the loops: LOCK(m_mutex); m_tip_height = ...; Flush(); return
TipHeightAndFlush ==
    /\ CallRunning
    /\ call.pending = <<>>
    /\ LET L == [ledger EXCEPT !.m_tip_height = Len(chain) - 1] IN
       /\ ledger' = L
       /\ db' = Flush(L)
    /\ call' = [call EXCEPT !.pc = "returned"]
    /\ ret' = TRUE
    /\ UNCHANGED <<chain, nCalls, minerVars, asmVars, powVars>>

\* Balance(wallet, token) called by another thread while the call runs
BalanceAct ==
    /\ CallRunning
    /\ \E wallet \in Addr, token \in Tokens :
         call' = [call EXCEPT !.read = [wallet |-> wallet, token |-> token,
                                        value |-> Balance(ledger, wallet, token)]]
    /\ UNCHANGED <<ledger, db, chain, ret, nCalls, minerVars, asmVars, powVars>>

NextThreads ==
    \/ ProcessBlockEnter \/ RescanFromHeightClear
    \/ ReplayNextOutput \/ TipHeightAndFlush
    \/ BalanceAct

(***************************************************************************)
(* The wallet's node: operations are applied online, the transaction that  *)
(* RecordOperationOnChain commits is confirmed in the next block, the node *)
(* restarts (Load) and rescans.                                            *)
(***************************************************************************)
\* the chain the node starts on: the tip is the block below the activation
PreActivationChain == << <<>>, <<PlainOut>> >>

OnlineOps ==
    { Sign(MkOp("CREATE", "A", "", "", "T", 2), "A"),
      Sign(MkOp("TRANSFER", "A", "B", "", "T", 1), "A"),
      Sign(MkOp("APPROVE", "A", "B", "", "T", 1), "A"),
      Sign(MkOp("TRANSFERFROM", "A", "B", "B", "T", 1), "B") }

\* the ledgers an earlier session may have left in the store
StoredLedgers ==
    { EmptyLedger,
      [CreateToken(EmptyLedger, "A", "T", 2, "N", "S", 8, TokenActivationHeight)
         EXCEPT !.m_tip_height = TokenActivationHeight] }

\* the versions of the software that may have written the store
StoreVersions == (TOKEN_DB_VERSION - 1) .. (TOKEN_DB_VERSION + 1)

StoredDbs ==
    {EmptyDb} \cup
    { [v |-> ver, s |-> [LedgerState(L) EXCEPT !.version = ver]] :
        ver \in StoreVersions, L \in StoredLedgers }

WalletInit ==
    /\ ledger = EmptyLedger
    /\ db = EmptyDb
    /\ chain = PreActivationChain
    /\ call = [fn |-> "none"]
    /\ ret = TRUE
    /\ nCalls = 0

StoreInit ==
    /\ ledger = EmptyLedger
    /\ db \in StoredDbs
    /\ chain = PreActivationChain
    /\ call = [fn |-> "none"]
    /\ ret = TRUE
    /\ nCalls = 0

\* RecordOperationOnChain has committed a transaction that no block holds yet
RecordPending == call.fn = "ApplyOperation" /\ ret

\* ApplyOperation(op, wallet, true) of a wallet that funds its transactions
ApplyOnlineAct ==
    /\ nCalls < MaxCalls
    /\ ~RecordPending
    /\ \E op \in OnlineOps, sendOk \in BOOLEAN :
         LET r == ApplyOperation(ledger, op, "w", TRUE, sendOk, Height)
         IN /\ ledger' = r.L
            /\ db' = IF r.flushed THEN Flush(r.L) ELSE db
            /\ ret' = r.ok
            /\ call' = [fn |-> "ApplyOperation", op |-> op]
    /\ nCalls' = nCalls + 1
    /\ UNCHANGED <<chain, minerVars, asmVars, powVars>>

\* BlockConnected for the block that confirms the recorded transaction
RecordConfirmed ==
    /\ RecordPending
    /\ LET height == Len(chain)
           block == <<PlainOut, TokenOut(call.op)>>
           L == ProcessBlock(ledger, block, height)
       IN /\ chain' = Append(chain, block)
          /\ ledger' = L
          /\ db' = Flush(L)
          /\ call' = [fn |-> "ProcessBlock", height |-> height]
    /\ ret' = TRUE
    /\ UNCHANGED <<nCalls, minerVars, asmVars, powVars>>

\* the node restarts: Load() into the ledger it has in memory
LoadAct ==
    /\ nCalls < MaxCalls
    /\ ~RecordPending
    /\ LET r == Load(ledger, db)
       IN /\ ledger' = r.L
          /\ db' = r.db
          /\ ret' = r.ok
    /\ call' = [fn |-> "Load"]
    /\ nCalls' = nCalls + 1
    /\ UNCHANGED <<chain, minerVars, asmVars, powVars>>

\* RescanFromHeight(h) once the last Load has succeeded
RescanLoaded ==
    /\ call.fn = "Load" /\ ret
    /\ RescanFromHeightAct

\* the process restarts: a newly constructed TokenLedger, whose members are
\* empty, calls Load() on the store the last session left
RestartAct ==
    /\ nCalls < MaxCalls
    /\ ~RecordPending
    /\ LET r == Load(EmptyLedger, db)
       IN /\ ledger' = r.L
          /\ db' = r.db
          /\ ret' = r.ok
    /\ call' = [fn |-> "Restart"]
    /\ nCalls' = nCalls + 1
    /\ UNCHANGED <<chain, minerVars, asmVars, powVars>>

NextWallet ==
    ApplyOnlineAct \/ RecordConfirmed \/ LoadAct \/ RescanLoaded \/ RestartAct

(***************************************************************************)
(* The wire form of a token operation.  A string is the sequence of its    *)
(* bytes and is written as its length (one byte below 253) and the bytes;  *)
(* amount and timestamp are 8 bytes and op and decimals 1 byte, little     *)
(* endian.  wallet_name is not serialised.                                 *)
(***************************************************************************)
RECURSIVE WriteLE(_, _)
WriteLE(v, n) == IF n = 0 THEN <<>> ELSE <<v % 256>> \o WriteLE(v \div 256, n - 1)

RECURSIVE ReadLE(_)
ReadLE(bytes) == IF bytes = <<>> THEN 0 ELSE Head(bytes) + 256 * ReadLE(Tail(bytes))

WriteString(str) == <<Len(str)>> \o str

\* the fields before the memo, in the order of READWRITE
FieldNames ==
    <<"op", "from", "to", "spender", "token", "amount", "name", "symbol",
      "decimals", "timestamp", "signer", "signature">>

\* the width of a fixed-width field, 0 for a string
FieldWidth(name) ==
    IF name \in {"op", "decimals"} THEN 1
    ELSE IF name \in {"amount", "timestamp"} THEN 8
    ELSE 0

RECURSIVE WriteFields(_, _)
WriteFields(op, k) ==
    IF k > Len(FieldNames) THEN <<>>
    ELSE LET name == FieldNames[k]
         IN  (IF FieldWidth(name) = 0 THEN WriteString(op[name])
              ELSE WriteLE(op[name], FieldWidth(name)))
             \o WriteFields(op, k + 1)

\* ss << op: the fields, the memo-present flag, the memo when there is one
Serialize(op) ==
    WriteFields(op, 1)
        \o (IF op.memo = <<>> THEN <<0>> ELSE <<1>> \o WriteString(op.memo))

\* the form older nodes wrote: no flag, the memo appended when there is one
SerializeLegacy(op) ==
    WriteFields(op, 1) \o (IF op.memo = <<>> THEN <<>> ELSE WriteString(op.memo))

\* ss >> str at position pos: fails (the stream throws) when the data ends
ReadString(data, pos) ==
    IF pos > Len(data) THEN [ok |-> FALSE, val |-> <<>>, pos |-> pos]
    ELSE LET n == data[pos]
         IN  IF pos + n > Len(data)
             THEN [ok |-> FALSE, val |-> <<>>, pos |-> pos]
             ELSE [ok |-> TRUE, val |-> SubSeq(data, pos + 1, pos + n),
                   pos |-> pos + n + 1]

ReadFixed(data, pos, n) ==
    IF pos + n - 1 > Len(data) THEN [ok |-> FALSE, val |-> 0, pos |-> pos]
    ELSE [ok |-> TRUE, val |-> ReadLE(SubSeq(data, pos, pos + n - 1)),
          pos |-> pos + n]

BlankOp ==
    [op |-> 0, from |-> <<>>, to |-> <<>>, spender |-> <<>>, token |-> <<>>,
     amount |-> 0, name |-> <<>>, symbol |-> <<>>, decimals |-> 0,
     timestamp |-> 0, signer |-> <<>>, signature |-> <<>>, memo |-> <<>>]

\* the fields before the memo read into op, from position pos on
RECURSIVE ReadFields(_, _, _, _)
ReadFields(data, pos, k, op) ==
    IF k > Len(FieldNames) THEN [ok |-> TRUE, op |-> op, pos |-> pos]
    ELSE LET name == FieldNames[k]
             r == IF FieldWidth(name) = 0 THEN ReadString(data, pos)
                  ELSE ReadFixed(data, pos, FieldWidth(name))
         IN  IF ~r.ok THEN [ok |-> FALSE, op |-> op, pos |-> pos]
             ELSE ReadFields(data, r.pos, k + 1, [op EXCEPT ![name] = r.val])

\* ss >> op in the current format; bytes after the operation are left unread
Unserialize(data) ==
    LET f == ReadFields(data, 1, 1, BlankOp)
        hasMemo == ReadFixed(data, f.pos, 1)
        memo == ReadString(data, hasMemo.pos)
    IN  IF ~f.ok \/ ~hasMemo.ok THEN [ok |-> FALSE, op |-> BlankOp]
        ELSE IF hasMemo.val = 0 THEN [ok |-> TRUE, op |-> f.op]
        ELSE IF ~memo.ok THEN [ok |-> FALSE, op |-> BlankOp]
        ELSE [ok |-> TRUE, op |-> [f.op EXCEPT !.memo = memo.val]]

\* the fallback of DecodeTokenOp: the fields, then a memo if bytes are left
UnserializeLegacy(data) ==
    LET f == ReadFields(data, 1, 1, BlankOp)
        memo == ReadString(data, f.pos)
    IN  IF ~f.ok THEN [ok |-> FALSE, op |-> BlankOp]
        ELSE IF f.pos > Len(data) THEN [ok |-> TRUE, op |-> f.op]
        ELSE IF ~memo.ok THEN [ok |-> FALSE, op |-> BlankOp]
        ELSE [ok |-> TRUE, op |-> [f.op EXCEPT !.memo = memo.val]]

\* DecodeTokenOp on the data push of an OP_RETURN output: the current format
\* is tried first, the legacy format when that throws
DecodeTokenOpData(data) ==
    IF data = <<>> THEN [ok |-> FALSE, op |-> BlankOp]
    ELSE IF Unserialize(data).ok THEN Unserialize(data)
    ELSE UnserializeLegacy(data)

\* SerializeHash of the operation with signer and signature cleared
WireOperationHash(op) == Serialize([op EXCEPT !.signature = <<>>, !.signer = <<>>])

\* a memo of 34 printable characters: a space and 33 times the letter a
LongMemo == [i \in 1 .. 34 |-> IF i = 1 THEN 32 ELSE 97]

\* "hi", two memos that begin with a byte below their length, and LongMemo
Memos == {<<>>, <<104, 105>>, <<0>>, <<1, 120>>, LongMemo}

WireOps ==
    [op : {0, 1}, from : {<<65>>}, to : {<<>>, <<66, 67>>}, spender : {<<>>},
     token : {<<84>>}, amount : {0, 300}, name : {<<78>>}, symbol : {<<83>>},
     decimals : {8}, timestamp : {1}, signer : {<<>>, <<65>>},
     signature : {<<>>, <<9, 9>>}, memo : Memos]

\* an output that carries the operation in one of the two forms is decoded
DecodeTokenOpAct ==
    /\ \E op \in WireOps, legacy \in BOOLEAN :
         LET data == IF legacy THEN SerializeLegacy(op) ELSE Serialize(op)
             r == DecodeTokenOpData(data)
         IN /\ call' = [fn |-> "DecodeTokenOp", op |-> op, legacy |-> legacy,
                        decoded |-> r.op]
            /\ ret' = r.ok
    /\ UNCHANGED <<ledger, db, chain, nCalls, minerVars, asmVars, powVars>>

NextCodec == DecodeTokenOpAct

(***************************************************************************)
(* The proof-of-work engine (pow.cpp).  A uint256 / arith_uint256 is the   *)
(* natural number it holds; the network's limits are small, so that every  *)
(* product of the retargeting rules stays far below 2^256, as it does on   *)
(* the real networks.                                                      *)
(***************************************************************************)
DifficultyAdjustmentInterval == params.nPowTargetTimespan \div params.nPowTargetSpacing

\* the compact form: the size byte, then the sign bit and a 23-bit mantissa
Compact(nSize, nWord) == nSize * 16777216 + nWord

RECURSIVE ByteLen(_)
ByteLen(v) == IF v = 0 THEN 0 ELSE 1 + ByteLen(v \div 256)

\* arith_uint256::SetCompact(nCompact, &fNegative, &fOverflow)
SetCompact(nCompact) ==
    LET nSize == nCompact \div 16777216
        nWord == nCompact % 8388608
        shifted == IF nSize <= 3 THEN nWord \div (256 ^ (3 - nSize))
                   ELSE IF nSize - 3 >= 32 THEN 0
                   ELSE nWord * (256 ^ (nSize - 3))
        word == IF nSize <= 3 THEN shifted ELSE nWord
    IN  [bnTarget |-> shifted,
         fNegative |-> word # 0 /\ (nCompact \div 8388608) % 2 = 1,
         fOverflow |-> word # 0 /\ (\/ nSize > 34
                                    \/ (word > 255 /\ nSize > 33)
                                    \/ (word > 65535 /\ nSize > 32))]

\* arith_uint256::GetCompact() of a non-negative value
GetCompact(v) ==
    LET nSize == ByteLen(v)
        nCompact == IF nSize <= 3 THEN v * (256 ^ (3 - nSize))
                    ELSE v \div (256 ^ (nSize - 3))
    IN  IF nCompact >= 8388608
        THEN Compact(nSize + 1, nCompact \div 256)
        ELSE Compact(nSize, nCompact)

\* the limit a height is subject to
ActiveLimit(nHeight) ==
    IF nHeight >= params.yespowerForkHeight THEN params.powLimitYespower ELSE params.powLimit

\* CheckYespower(block, bnTarget, height): recomputes the header's hash
CheckYespower(block, bnTarget, height) ==
    IF ~block.yespowerOk THEN FALSE
    ELSE block.yespowerHash <= bnTarget

CheckProofOfWorkWithHeight(hash, block, nBits, nHeight) ==
    LET t == SetCompact(nBits) IN
    IF nHeight = 0 \/ hash = params.hashGenesisBlock THEN TRUE
    ELSE IF t.fNegative \/ t.fOverflow \/ t.bnTarget = 0 THEN FALSE
    ELSE IF nHeight >= 1
         THEN IF nHeight = 1 THEN TRUE
              ELSE CheckYespower(block, t.bnTarget, nHeight)
         ELSE block.GetHash <= t.bnTarget

CheckProofOfWork(hash, blockHeader, nBits, nHeight) ==
    IF nHeight = 0 THEN TRUE
    ELSE IF nHeight >= params.yespowerForkHeight
         THEN CheckProofOfWorkWithHeight(hash, blockHeader, nBits, nHeight)
         ELSE LET t == SetCompact(nBits) IN
              IF \/ t.fNegative
                 \/ t.bnTarget = 0
                 \/ t.fOverflow
                 \/ t.bnTarget > params.powLimit
              THEN FALSE
              ELSE hash <= t.bnTarget

\* a chain of CBlockIndex is the sequence idx of its entries from genesis to
\* pindexLast: idx[h + 1] is the entry of height h, its pprev is idx[h]
TipHeight(idx) == Len(idx) - 1

\* the entry k steps back from pindexLast along pprev
Back(idx, k) == idx[Len(idx) - k]

\* the loop of DarkGravityWave3Nova after i + 1 iterations
RECURSIVE PastDifficultyAverage(_, _)
PastDifficultyAverage(idx, i) ==
    LET currentDifficulty == SetCompact(Back(idx, i).nBits).bnTarget IN
    IF i = 0 THEN currentDifficulty
    ELSE (PastDifficultyAverage(idx, i - 1) * i + currentDifficulty)
             \div (i + 1)

RECURSIVE ActualTimespan(_, _)
ActualTimespan(idx, i) ==
    IF i = 0 THEN 0
    ELSE LET lastBlockTime == Back(idx, i - 1).nTime IN
         ActualTimespan(idx, i - 1)
             + (IF lastBlockTime > 0
                THEN lastBlockTime - Back(idx, i).nTime ELSE 0)

\* std::sort of a vector, ascending
RECURSIVE SortAsc(_)
SortAsc(s) ==
    IF s = <<>> THEN <<>>
    ELSE LET m == CHOOSE i \in 1 .. Len(s) : \A j \in 1 .. Len(s) : s[i] <= s[j]
         IN  <<s[m]>> \o SortAsc(SubSeq(s, 1, m - 1) \o SubSeq(s, m + 1, Len(s)))

\* what arith_uint256 / decayFactor divides by: the double converts to the
\* integer below it; pow(multiplier, 0.45) reaches decayLimit 2.0 exactly when
\* multiplier >= 2^(1/0.45) = 4.6661...
DecayDivisor(actualSolveTime) ==
    IF actualSolveTime * 10000 >= 46662 * params.nPowTargetSpacing THEN 2 ELSE 1

\* DarkGravityWave3Nova with the normal clamp applied in every regime
NovaTimespan_AlwaysClamped(idx) ==
    LET nextHeight == TipHeight(idx) + 1
        v9 == nextHeight >= params.nextDifficultyFork5Height
        nPastBlocks == IF v9 THEN 12 ELSE 24
        n == Min(nPastBlocks, Len(idx))
        targetTimespan == nPastBlocks * params.nPowTargetSpacing
        minTimespanClamp == targetTimespan \div 3
        maxTimespanClamp == targetTimespan * 3
        emergencyClamp ==
            IF v9 THEN targetTimespan \div 3 ELSE targetTimespan \div 6
        minSolveClamp ==
            IF v9 THEN targetTimespan \div 4 ELSE targetTimespan \div 8
        minSolveTime == 12
        actualSolveTime == Back(idx, 0).nTime - Back(idx, 1).nTime
        unclampedActualTimespan == ActualTimespan(idx, n - 1)
        triggered ==
            IF v9 THEN /\ actualSolveTime < 2 * minSolveTime
                       /\ unclampedActualTimespan < targetTimespan \div 6
            ELSE \/ actualSolveTime < minSolveTime
                 \/ unclampedActualTimespan < targetTimespan \div 6
        fired == triggered /\ nextHeight >= params.nextDifficultyFork3Height
        afterEmergency ==
            IF fired
            THEN Min(unclampedActualTimespan, Min(emergencyClamp, minSolveClamp))
            ELSE unclampedActualTimespan
        clamped == Min(Max(afterEmergency, minTimespanClamp), maxTimespanClamp)
    IN  [triggered |-> triggered, fired |-> fired,
         afterEmergency |-> afterEmergency,
         actualTimespan |-> clamped]

\* the timespan part of DarkGravityWave3Nova: the emergency trigger, the
\* timespan after the emergency clamp and the timespan after the normal clamp
NovaTimespan(idx) ==
    LET nextHeight == TipHeight(idx) + 1
        v9 == nextHeight >= params.nextDifficultyFork5Height
        nPastBlocks == IF v9 THEN 12 ELSE 24
        n == Min(nPastBlocks, Len(idx))
        targetTimespan == nPastBlocks * params.nPowTargetSpacing
        minTimespanClamp == targetTimespan \div 3
        maxTimespanClamp == targetTimespan * 3
        emergencyClamp ==
            IF v9 THEN targetTimespan \div 3 ELSE targetTimespan \div 6
        minSolveClamp ==
            IF v9 THEN targetTimespan \div 4 ELSE targetTimespan \div 8
        minSolveTime == 12
        actualSolveTime == Back(idx, 0).nTime - Back(idx, 1).nTime
        unclampedActualTimespan == ActualTimespan(idx, n - 1)
        triggered ==
            IF v9 THEN /\ actualSolveTime < 2 * minSolveTime
                       /\ unclampedActualTimespan < targetTimespan \div 6
            ELSE \/ actualSolveTime < minSolveTime
                 \/ unclampedActualTimespan < targetTimespan \div 6
        fired == triggered /\ nextHeight >= params.nextDifficultyFork3Height
        afterEmergency ==
            IF fired
            THEN Min(unclampedActualTimespan, Min(emergencyClamp, minSolveClamp))
            ELSE unclampedActualTimespan
        clamped == Min(Max(afterEmergency, minTimespanClamp), maxTimespanClamp)
    IN  [triggered |-> triggered, fired |-> fired,
         afterEmergency |-> afterEmergency,
         actualTimespan |-> IF v9 /\ triggered THEN afterEmergency ELSE clamped]

DarkGravityWave3Nova(idx) ==
    LET nextHeight == TipHeight(idx) + 1
        v9 == nextHeight >= params.nextDifficultyFork5Height
        nPastBlocks == IF v9 THEN 12 ELSE 24
        limit == ActiveLimit(nextHeight)
        n == Min(nPastBlocks, Len(idx))
        pastDifficultyAverage == PastDifficultyAverage(idx, n - 1)
        targetTimespan == nPastBlocks * params.nPowTargetSpacing
        actualSolveTime == Back(idx, 0).nTime - Back(idx, 1).nTime
        actualTimespan == NovaTimespan(idx).actualTimespan
        \* nextHeight >= v9 compares the height with the bool as 0 or 1
        decays == /\ nextHeight >= (IF v9 THEN 1 ELSE 0)
                  /\ actualSolveTime > params.nPowTargetSpacing
        pastDiffs == [k \in 1 .. Min(nPastBlocks, 5) |->
                          SetCompact(Back(idx, k - 1).nBits).bnTarget]
        difficultySmoothing ==
            IF v9 THEN SortAsc(pastDiffs)[(Len(pastDiffs) \div 2) + 1]
            ELSE pastDifficultyAverage
        baseline == (difficultySmoothing * actualTimespan) \div targetTimespan
        diffToPrevious == IF baseline > difficultySmoothing
                          THEN baseline - difficultySmoothing ELSE 0
        newDifficulty ==
            IF decays
            THEN baseline - (diffToPrevious \div DecayDivisor(actualSolveTime))
            ELSE baseline
        bnPowLimit == IF nextHeight >= 1 THEN params.powLimitYespower ELSE params.powLimit
    IN  IF nextHeight < nPastBlocks THEN GetCompact(limit)
        ELSE IF nextHeight <= 1 /\ newDifficulty > bnPowLimit
             THEN GetCompact(bnPowLimit)
             ELSE GetCompact(newDifficulty)

CalculateNextWorkRequired(idx, nFirstBlockTime) ==
    LET tip == Back(idx, 0)
        raw == tip.nTime - nFirstBlockTime
        nActualTimespan == Min(Max(raw, params.nPowTargetTimespan \div 4),
                               params.nPowTargetTimespan * 4)
        bnNew == (SetCompact(tip.nBits).bnTarget * nActualTimespan)
                     \div params.nPowTargetTimespan
    IN  IF params.fPowNoRetargeting THEN tip.nBits
        ELSE IF bnNew > params.powLimit THEN GetCompact(params.powLimit)
        ELSE GetCompact(bnNew)

\* the last entry, walking back from tip, that is on an interval
\* boundary, has no pprev or does not carry the minimum difficulty
RECURSIVE LastNonSpecial(_, _, _)
LastNonSpecial(idx, k, nProofOfWorkLimit) ==
    LET h == TipHeight(idx) - k IN
    IF /\ h > 0
       /\ h % DifficultyAdjustmentInterval # 0
       /\ Back(idx, k).nBits = nProofOfWorkLimit
    THEN LastNonSpecial(idx, k + 1, nProofOfWorkLimit)
    ELSE Back(idx, k).nBits

\* GetNextWorkRequired(pindexLast, pblock, params): the nBits it returns and
\* the retargeting function it hands the work to, if any
GetNextWorkRequired(idx, pblockTime) ==
    LET nHeight == TipHeight(idx)
        nProofOfWorkLimit == GetCompact(ActiveLimit(nHeight + 1))
        nHeightFirst == nHeight - (DifficultyAdjustmentInterval - 1)
    IN  IF nHeight + 1 >= params.nextDifficultyFork2Height
        THEN [nBits |-> DarkGravityWave3Nova(idx),
              callee |-> "DarkGravityWave3Nova"]
        ELSE IF (nHeight + 1) % DifficultyAdjustmentInterval # 0
        THEN [nBits |->
                  IF params.fPowAllowMinDifficultyBlocks
                  THEN IF pblockTime > Back(idx, 0).nTime + params.nPowTargetSpacing * 2
                       THEN nProofOfWorkLimit
                       ELSE LastNonSpecial(idx, 0, nProofOfWorkLimit)
                  ELSE Back(idx, 0).nBits,
              callee |-> "none"]
        ELSE [nBits |-> CalculateNextWorkRequired(idx, idx[nHeightFirst + 1].nTime),
              callee |-> "CalculateNextWorkRequired"]

GenesisIndex ==
    [nBits |-> GetCompact(params.powLimit), nTime |-> params.genesisTime, callee |-> "none"]

\* the entry of the block that CreateNewBlock builds on pindexLast and that a
\* worker solves solveTime seconds after pindexLast: pblock->nBits is what
\* GetNextWorkRequired returns
NextIndex(idx, solveTime) ==
    LET nTime == Back(idx, 0).nTime + solveTime
        work == GetNextWorkRequired(idx, nTime)
    IN  [nBits |-> work.nBits, nTime |-> nTime, callee |-> work.callee]

\* the chain of height h whose blocks were all solved in the same time
RECURSIVE GrowChain(_, _)
GrowChain(h, solveTime) ==
    IF h = 0 THEN <<GenesisIndex>>
    ELSE LET prev == GrowChain(h - 1, solveTime)
         IN  Append(prev, NextIndex(prev, solveTime))

SolveTimes == {5, params.nPowTargetSpacing, 5 * params.nPowTargetSpacing}

StartHeights == 0 .. (params.nextDifficultyFork2Height + 1)

\* the inputs of CheckProofOfWork
PowHashes == {3, params.hashGenesisBlock, 1000, 100000, 500000}

PowHeaders ==
    [GetHash : {1000, 500000}, yespowerHash : {1000, 100000, 500000},
     yespowerOk : BOOLEAN]

PowBits ==
    { Compact(3, 0),                \* a zero target
      Compact(3, 8388608 + 4095),   \* a negative target
      Compact(35, 1),               \* an overflowed target
      Compact(3, 4095),
      GetCompact(params.powLimit),
      GetCompact(params.powLimitYespower),
      Compact(3, 262143) }          \* a target above both limits

PowHeights == 0 .. (params.yespowerForkHeight + 1)

NoPowCall == [fn |-> "none"]

PowIdle ==
    /\ pindexLast = <<GenesisIndex>>
    /\ nConnected = 0
    /\ powCall = NoPowCall
    /\ powRet = FALSE

\* a node whose chain grew to some height with evenly spaced blocks
PowInit ==
    /\ \E h \in StartHeights, s \in SolveTimes : pindexLast = GrowChain(h, s)
    /\ nConnected = 0
    /\ powCall = NoPowCall
    /\ powRet = FALSE

\* a block built on the tip by CreateNewBlock is solved and connected
ConnectTip ==
    /\ nConnected < MaxConnect
    /\ \E solveTime \in SolveTimes :
           pindexLast' = Append(pindexLast, NextIndex(pindexLast, solveTime))
    /\ nConnected' = nConnected + 1
    /\ UNCHANGED <<powCall, powRet, ledgerVars, minerVars, asmVars>>

\* a call of CheckProofOfWork(hash, blockHeader, nBits, params, nHeight)
CheckProofOfWorkAct ==
    /\ \E hash \in PowHashes, blockHeader \in PowHeaders, nBits \in PowBits,
          nHeight \in PowHeights :
           /\ powCall' = [fn |-> "CheckProofOfWork", hash |-> hash,
                          blockHeader |-> blockHeader, nBits |-> nBits,
                          nHeight |-> nHeight]
           /\ powRet' = CheckProofOfWork(hash, blockHeader, nBits, nHeight)
    /\ UNCHANGED <<pindexLast, nConnected, ledgerVars, minerVars, asmVars>>

(***************************************************************************)
(* The specifications: each runs one component from its constructed state  *)
(* while the others stay idle.                                             *)
(***************************************************************************)
InitLedger == LedgerInit /\ MinerIdle /\ AsmIdle /\ PowIdle

SpecLedger == InitLedger /\ [][NextLedger]_vars

SpecChain == InitLedger /\ [][NextChain]_vars

InitMiner == MinerInit /\ LedgerInit /\ AsmIdle /\ PowIdle

SpecMiner == InitMiner /\ [][NextMiner]_vars

\* every thread the coordinator can start: <<round, threadId>>
AllWorkers == (1 .. MaxRounds) \X (0 .. NThreads - 1)

\* the steps of the supervisor thread
Supervisor == SupLoop \/ SupBuild \/ SupSpawn \/ SupWait \/ SupRestart

\* the steps of worker thread w, once it is spawned
Worker(w) ==
    /\ w \in DOMAIN wpc
    /\ WorkerCheck(w) \/ WorkerHash(w) \/ WorkerSubmit(w) \/ WorkerStore(w)

\* the operating system schedules every thread that can take a step; whether
\* a hash meets the target, and what the rest of the node does, is left open
SpecMinerFair ==
    /\ InitMiner
    /\ [][NextMiner]_vars
    /\ WF_vars(Supervisor)
    /\ \A w \in AllWorkers : WF_vars(Worker(w))

InitAssembler == AsmInit /\ LedgerInit /\ MinerIdle /\ PowIdle

SpecAssembler == InitAssembler /\ [][NextAssembler]_vars

InitBlockTime == AsmTimeInit /\ LedgerInit /\ MinerIdle /\ PowIdle

SpecBlockTime == InitBlockTime /\ [][NextAssembler]_vars

InitWallet == WalletInit /\ MinerIdle /\ AsmIdle /\ PowIdle

SpecWallet == InitWallet /\ [][NextWallet]_vars

InitStore == StoreInit /\ MinerIdle /\ AsmIdle /\ PowIdle

SpecStore == InitStore /\ [][NextWallet]_vars

InitSplit == AsmSplitInit /\ LedgerInit /\ MinerIdle /\ PowIdle

SpecSplit == InitSplit /\ [][NextAssembler]_vars

SpecCodec == InitLedger /\ [][NextCodec]_vars

SpecThreads == InitLedger /\ [][NextThreads]_vars

NextRetarget == ConnectTip

InitRetarget == PowInit /\ LedgerInit /\ MinerIdle /\ AsmIdle

SpecRetarget == InitRetarget /\ [][NextRetarget]_vars

NextPow == CheckProofOfWorkAct

InitPow == PowIdle /\ LedgerInit /\ MinerIdle /\ AsmIdle

SpecPow == InitPow /\ [][NextPow]_vars

(***************************************************************************)
(* Helpers of the ledger claims.                                           *)
(***************************************************************************)
RECURSIVE SumOver(_, _)
SumOver(m, keys) ==
    IF keys = {} THEN 0
    ELSE LET k == CHOOSE x \in keys : TRUE IN m[k] + SumOver(m, keys \ {k})

\* the sum of balances[(a, t)] over every address a that has an entry
SumBalances(L, t) ==
    SumOver(L.m_balances, {k \in DOMAIN L.m_balances : k[2] = t})

HistoryOf(L, t) == IF t \in DOMAIN L.m_history THEN L.m_history[t] ELSE <<>>

\* what the read accessors return for token t
SameTokenState(L1, L2, t) ==
    /\ \A a \in Addr : Balance(L1, a, t) = Balance(L2, a, t)
    /\ \A a \in Addr, b \in Addr : Allowance(L1, a, b, t) = Allowance(L2, a, b, t)
    /\ TotalSupply(L1, t) = TotalSupply(L2, t)

\* the ledger state as its readers see it (an entry holding 0 reads as an absent one)
SameLedgerState(L1, L2) ==
    /\ \A t \in Tokens : SameTokenState(L1, L2, t)
    /\ L1.m_token_meta = L2.m_token_meta
    /\ L1.m_history = L2.m_history
    /\ L1.m_seen_ops = L2.m_seen_ops
    /\ L1.m_governance_fees = L2.m_governance_fees

RECURSIVE ReplayAll(_, _, _)
ReplayAll(L, ops, height) ==
    IF ops = <<>> THEN L
    ELSE ReplayAll(ReplayOperation(L, Head(ops), height).L, Tail(ops), height)

IsLedgerCall == call.fn \in {"ApplyOperation", "ReplayOperation"}

\* C1: after any sequence of token operations, accepted or rejected, through
\* ApplyOperation or ReplayOperation, the balances of every token sum to its
\* total supply.
C1_SupplyEqualsBalances ==
    \A t \in Tokens : SumBalances(ledger, t) = TotalSupply(ledger, t)

\* a CREATE and an accepted TRANSFER have acted, and a BURN was just accepted
C1_Witness ==
    /\ IsLedgerCall /\ ret /\ call.op.op = "BURN"
    /\ Balance(ledger, "B", "T") > 0
    /\ TotalSupply(ledger, "T") > 0

\* C2: an ApplyOperation that rejects its operation returns false and leaves
\* balances, allowances, total supply, metadata, history, seen_ops and the
\* accrued governance fees as they were.
C2_RejectedApplyChangesNothing ==
    [][(call'.fn = "ApplyOperation" /\ ~ret') => SameLedgerState(ledger, ledger')]_vars

\* C5: replaying history[t] in order through ReplayOperation on an empty ledger
\* gives the balances, allowances and total supply the ledger holds for t.
C5_HistoryReplay ==
    \A t \in Tokens :
        SameTokenState(ReplayAll(EmptyLedger, HistoryOf(ledger, t), 0), ledger, t)

\* two operations are in the history of T, the last call was rejected after its
\* hash was recorded, and B holds tokens
C5_Witness ==
    /\ IsLedgerCall /\ ~ret
    /\ Len(HistoryOf(ledger, "T")) >= 2
    /\ TokenOperationHash(call.op) \in ledger.m_seen_ops
    /\ call.op \notin {HistoryOf(ledger, "T")[i] : i \in 1..Len(HistoryOf(ledger, "T"))}
    /\ Balance(ledger, "B", "T") > 0

\* C6: a CREATE for a token whose metadata already exists returns false and
\* changes no balance, no total supply and no metadata of that token.
C6_CreateExistingFails ==
    [][(/\ call'.fn \in {"ApplyOperation", "ReplayOperation"}
        /\ call'.op.op = "CREATE"
        /\ call'.op.token \in DOMAIN ledger.m_token_meta)
       => (/\ ~ret'
           /\ \A a \in Addr : Balance(ledger', a, call'.op.token)
                              = Balance(ledger, a, call'.op.token)
           /\ TotalSupply(ledger', call'.op.token) = TotalSupply(ledger, call'.op.token)
           /\ ledger'.m_token_meta = ledger.m_token_meta)]_vars

\* the ledger that the chain defines: the decodable operations of the blocks
\* from the activation height up to the tip, replayed in chain order
ChainLedger(c) == RescanLoop(EmptyLedger, c, TokenActivationHeight)

\* C4: after any sequence of block connections, disconnections and rescans the
\* ledger's balances, allowances, total supply, metadata and history are those
\* of replaying, on an empty ledger and in chain order, the token operations of
\* the active chain from the activation height up to the tip.
C4_LedgerFollowsChain ==
    /\ \A t \in Tokens : SameTokenState(ledger, ChainLedger(chain), t)
    /\ ledger.m_token_meta = ChainLedger(chain).m_token_meta
    /\ ledger.m_history = ChainLedger(chain).m_history

\* C3: for each template at most one worker submits a block to the chain
\* processor (ProcessNewBlock), under every interleaving of the workers.
C3_AtMostOneSubmission ==
    \A r \in 1..MaxRounds : Cardinality({w \in submitted : w[1] = r}) <= 1


(***************************************************************************)
(* Block assembly: what the claims speak of.                               *)
(***************************************************************************)
\* the outputs of the coinbase that carry value: all but the commitment
ValueOutputs ==
    SelectSeq(tmpl.vout, LAMBDA o : o.scriptPubKey # "commitment")

RECURSIVE SumValues(_)
SumValues(outs) ==
    IF outs = <<>> THEN 0 ELSE Head(outs).nValue + SumValues(Tail(outs))

\* the coinbase of the current call has been built
CoinbaseBuilt == asm.pc \in {"returned", "threw"}

\* the subsidy, plus the collected fees unless the height burns them
BlockReward ==
    asm.subsidy
        + (IF asm.nHeight >= 1 /\ asm.nHeight <= nFeeBurnEndHeight
           THEN 0 ELSE asm.nFees)

\* C7: the value outputs of a coinbase built by CreateNewBlock sum to the
\* subsidy plus the collected fees when fees are not burned and to the
\* subsidy alone when they are; the first output pays the miner what the
\* other outputs leave of it, a governance output carries 7300/10000 of
\* the reward and an operator output 500/10000, and both are there when
\* the governance address is valid (the operator's when its address is too)
C7_CoinbaseSumAndSplit ==
    CoinbaseBuilt =>
        LET outs == ValueOutputs
            scripts == {outs[k].scriptPubKey : k \in 2 .. Len(outs)}
        IN  /\ Len(outs) >= 1
            /\ SumValues(outs) = BlockReward
            /\ outs[1].scriptPubKey = "miner"
            /\ outs[1].nValue = BlockReward - SumValues(Tail(outs))
            /\ \A k \in 2 .. Len(outs) :
                  /\ outs[k].scriptPubKey \in {"governance", "operator"}
                  /\ outs[k].scriptPubKey = "governance" =>
                        outs[k].nValue = (BlockReward * GOV_BPS) \div BPS_DENOM
                  /\ outs[k].scriptPubKey = "operator" =>
                        outs[k].nValue = (BlockReward * OP_BPS) \div BPS_DENOM
            /\ asm.govValid =>
                  /\ "governance" \in scripts
                  /\ asm.hasOpDest <=> "operator" \in scripts
            /\ ~asm.govValid => scripts = {}

\* a template with all three outputs, fees that are not burned, and a
\* subsidy whose shares are rounded
C7_Witness ==
    /\ asm.pc = "returned"
    /\ asm.govValid /\ asm.hasOpDest
    /\ asm.nFees > 0 /\ asm.nHeight > nFeeBurnEndHeight
    /\ asm.subsidy = 77
    /\ Len(ValueOutputs) = 3

\* C8: once CreateNewBlock has built the coinbase with an invalid
\* governance address, the coinbase has exactly one value output and it
\* pays the full block reward to the miner script, whether or not an
\* operator address is configured and valid
C8_GovInvalidSingleOutput ==
    (asm.pc \in {"returned", "threw", "aborted"} /\ ~asm.govValid)
        => /\ asm.pc # "aborted"
           /\ ValueOutputs =
                  <<[scriptPubKey |-> "miner", nValue |-> BlockReward]>>

\* C9: in every state of the package-selection loop and afterwards the
\* weight accumulator, the 4000 reserved units included, is at most
\* nBlockMaxWeight and the sigops accumulator, the 400 reserved included,
\* is at most MAX_BLOCK_SIGOPS_COST
C9_WithinLimits ==
    asm.pc # "idle" =>
        /\ asm.nBlockWeight <= asm.nBlockMaxWeight
        /\ asm.nBlockSigOpsCost <= MAX_BLOCK_SIGOPS_COST

\* a returned template that holds a transaction with many sigops and has
\* no room left for a transaction of 100 virtual bytes that stayed out
C9_Witness ==
    /\ asm.pc = "returned"
    /\ asm.nBlockTx >= 2
    /\ asm.inBlock # DOMAIN mempool
    /\ asm.nBlockSigOpsCost > 40000
    /\ asm.nBlockWeight + WITNESS_SCALE_FACTOR * 100 >= asm.nBlockMaxWeight

\* C10: every transaction of the block comes after all its in-mempool
\* ancestors, which are all in the block
C10_ParentsFirst ==
    \A k \in 1 .. Len(tmpl.vtx) :
        \A p \in CalculateMemPoolAncestors(tmpl.vtx[k]) :
            \E j \in 1 .. k - 1 : tmpl.vtx[j] = p

\* a returned template with a parent that pays too little on its own right
\* before its child, which pays for both
C10_Witness ==
    /\ asm.pc = "returned"
    /\ \E k \in 2 .. Len(tmpl.vtx) :
          LET c == tmpl.vtx[k]
              p == tmpl.vtx[k - 1]
          IN  /\ p \in mempool[c].parents
              /\ mempool[p].modfee
                    < GetFee(asm.blockMinFeeRate, mempool[p].size)
              /\ mempool[p].modfee * mempool[c].size
                    < mempool[c].modfee * mempool[p].size

(***************************************************************************)
(* Helpers of the proof-of-work claims.                                    *)
(***************************************************************************)
\* the last call was CheckProofOfWork on a block that is not the genesis block
NonGenesisCheck ==
    /\ powCall.fn = "CheckProofOfWork"
    /\ powCall.nHeight # 0
    /\ powCall.hash # params.hashGenesisBlock

\* nBits decodes to a negative, zero or overflowed target, or to one above
\* the limit active at nHeight
BadBits(nBits, nHeight) ==
    LET t == SetCompact(nBits) IN
    \/ t.fNegative
    \/ t.fOverflow
    \/ t.bnTarget = 0
    \/ t.bnTarget > ActiveLimit(nHeight)

\* C11: CheckProofOfWork returns false for every non-genesis block whose
\* nBits decodes to a negative, zero or overflowed target or to a target
\* above the limit active at its height, whatever the hashes are.
C11_BadBitsRejected ==
    (NonGenesisCheck /\ BadBits(powCall.nBits, powCall.nHeight))
        => powRet = FALSE

\* the heights of the chain
ChainHeights == 0 .. TipHeight(pindexLast)

\* the target that the nBits of the block at height h encodes
TargetAt(h) == SetCompact(pindexLast[h + 1].nBits).bnTarget

\* C12: the target encoded by the nBits that the DGW3-Nova retarget returns
\* for a next height >= nextDifficultyFork2Height is never above the PoW
\* limit active at that height.
C12_NovaWithinLimit ==
    \A h \in ChainHeights :
        h >= params.nextDifficultyFork2Height => TargetAt(h) <= ActiveLimit(h)

\* the retargeting functions of the legacy Bitcoin rule: the interval
\* boundary calls CalculateNextWorkRequired, the other heights call none
LegacyCallees == {"none", "CalculateNextWorkRequired"}

\* C13: GetNextWorkRequired selects the regime by the next height: DGW3-Nova
\* from nextDifficultyFork2Height on, LWMA3 from nextDifficultyForkHeight up
\* to nextDifficultyFork2Height, and the legacy rule below the first fork.
C13_RegimeByHeight ==
    \A h \in ChainHeights \ {0} :
        LET callee == pindexLast[h + 1].callee IN
        /\ h >= params.nextDifficultyFork2Height
               => callee = "DarkGravityWave3Nova"
        /\ (/\ h >= params.nextDifficultyForkHeight
            /\ h < params.nextDifficultyFork2Height) => callee = "Lwma3"
        /\ h < params.nextDifficultyForkHeight => callee \in LegacyCallees

(***************************************************************************)
(* Helpers of the coordinator and assembler claims of the second part.     *)
(***************************************************************************)
\* C14: from difficultyForkHeight on, the nTime of the template that
\* CreateNewBlock returns is at least MTP + 1 and at most MTP + 20 minutes,
\* whatever the adjusted clock reads.
C14_TimeWithinWindow ==
    (asm.pc = "returned" /\ asm.nHeight >= params.difficultyForkHeight)
        => /\ tmpl.nTime >= nMedianTimePast + 1
           /\ tmpl.nTime <= nMedianTimePast + 20 * 60

(***************************************************************************)
(* Claims on the ledger's duplicate and signature checks.                  *)
(***************************************************************************)
\* the step is a call of ApplyOperation or ReplayOperation with an operation
\* whose hash the ledger recorded when it processed an earlier operation
DuplicateCall ==
    /\ call'.fn \in {"ApplyOperation", "ReplayOperation"}
    /\ TokenOperationHash(call'.op) \in ledger.m_seen_ops

\* no two entries of a history have the same hash
DistinctHistoryHashes ==
    \A t \in Tokens :
        \A i \in 1 .. Len(HistoryOf(ledger, t)) :
            \A j \in 1 .. Len(HistoryOf(ledger, t)) :
                i # j => TokenOperationHash(HistoryOf(ledger, t)[i])
                             # TokenOperationHash(HistoryOf(ledger, t)[j])

\* C15: within one session an operation whose hash, taken with signer and
\* signature blanked, is the hash of an operation already processed by
\* ApplyOperation or ReplayOperation is rejected and changes no balance,
\* allowance, supply, metadata or history; so no two entries of any history
\* have the same hash.
C15_DuplicateRejected ==
    /\ [][DuplicateCall => (~ret' /\ SameLedgerState(ledger, ledger'))]_vars
    /\ []DistinctHistoryHashes

\* the last call was rejected although it carried an operation that an
\* earlier call had accepted into the history
C15_Witness ==
    /\ IsLedgerCall /\ ~ret
    /\ \E i \in 1 .. Len(HistoryOf(ledger, call.op.token)) :
           HistoryOf(ledger, call.op.token)[i] = call.op

\* op is signed by its acting party: the signer is the spender of a
\* TRANSFERFROM and the from of every other operation, and the signature
\* verifies for that signer over the canonical message
SignedByActingParty(op) ==
    /\ op.signer = (IF op.op = "TRANSFERFROM" THEN op.spender ELSE op.from)
    /\ MessageVerify(op.signer, op.signature, BuildTokenMsg(op))

\* every operation of every history is signed by its acting party
HistoriesSigned ==
    \A t \in Tokens :
        \A i \in 1 .. Len(HistoryOf(ledger, t)) :
            SignedByActingParty(HistoryOf(ledger, t)[i])

\* C16: every operation that ApplyOperation or ReplayOperation accepts, and
\* so every operation of any history, is signed by its acting party; an
\* operation that is not is rejected and changes nothing.
C16_OnlySignedAccepted ==
    /\ [][call'.fn \in {"ApplyOperation", "ReplayOperation"}
            => /\ ret' => SignedByActingParty(call'.op)
               /\ ~SignedByActingParty(call'.op)
                      => (~ret' /\ ledger' = ledger)]_vars
    /\ []HistoriesSigned

\* the last call was rejected: its operation carries a signature that
\* verifies, but of a signer who is not the acting party; the history holds
\* an accepted operation
C16_Witness ==
    /\ IsLedgerCall /\ ~ret
    /\ IsValidDestination(call.op.signer)
    /\ MessageVerify(call.op.signer, call.op.signature, BuildTokenMsg(call.op))
    /\ call.op.signer # Expected(call.op)
    /\ Len(HistoryOf(ledger, "T")) >= 1

\* the operator of token t, none when t has no metadata
OperatorOf(L, t) ==
    IF t \in DOMAIN L.m_token_meta THEN L.m_token_meta[t].operator_wallet
    ELSE ""

\* two calls returned the same result and left the same balances,
\* allowances, total supply, token operator and history
SameOutcome(a, r) ==
    /\ a.ok = r.ok
    /\ \A t \in Tokens :
          /\ SameTokenState(a.L, r.L, t)
          /\ OperatorOf(a.L, t) = OperatorOf(r.L, t)
          /\ HistoryOf(a.L, t) = HistoryOf(r.L, t)

\* C20: on every ledger state and for every operation, ReplayOperation(op,
\* height) and ApplyOperation(op, wallet_name, broadcast = false) return the
\* same result and leave the same balances, allowances, total supply, token
\* operator and history, and the replay leaves the accrued governance fees
\* as they were.  Every replay step is compared with what the offline apply
\* gives on the state the step starts from.
C20_ReplayAsOfflineApply ==
    [][call'.fn = "ReplayOperation"
         => /\ ledger'.m_governance_fees = ledger.m_governance_fees
            /\ \A wallet_name \in {"", "w"} :
                  SameOutcome(ApplyOperation(ledger, call'.op, wallet_name,
                                             FALSE, TRUE, Height),
                              [ok |-> ret', L |-> ledger'])]_vars

\* the last call was a replay that was accepted, on a ledger that had charged
\* a fee and holds an allowance
C20_Witness ==
    /\ call.fn = "ReplayOperation" /\ ret
    /\ ledger.m_governance_fees > 0
    /\ Allowance(ledger, "A", "B", "T") > 0

(***************************************************************************)
(* Claims on the mining coordinator's rounds.                              *)
(***************************************************************************)
\* C19: a template that its self-check (TestBlockValidity) rejects fails the
\* assemble call for this round only: no exception leaves CreateNewBlock and
\* ends the supervisor, which stays able to run a later round.
C19_RejectionEndsRoundOnly == sup_pc # "terminate"

\* the supervisor waits on a template that was built on an older tip
WaitingOnStaleTemplate ==
    /\ sup_pc = "wait"
    /\ builtOn[round] < chainTip

\* C17: when the chain tip changes while a round is running, the coordinator
\* eventually abandons the round's template and goes on to build a new one on
\* the new tip, whether or not a worker of the round finds a block.
C17_TipChangeRestartsRound == WaitingOnStaleTemplate ~> (sup_pc # "wait")

\* a flag that tells the workers to stop is up
StopFlag == shutdown \/ ~fGenerating \/ foundBlock

\* worker w has left its thread function
WorkerExited(w) == w \in DOMAIN wpc /\ wpc[w] \in {"done", "exhausted"}

\* C18: once shutdown is requested, the generating flag is cleared or
\* foundBlock is set, every worker of the current round exits and the
\* supervisor leaves its wait loop.
C18_FlagsStopTheRound ==
    /\ \A w \in AllWorkers :
          (w \in DOMAIN wpc /\ w[1] = round /\ StopFlag)
              ~> (WorkerExited(w) \/ sup_pc = "terminate")
    /\ (sup_pc = "wait" /\ StopFlag) ~> (sup_pc # "wait")

(***************************************************************************)
(* C21: when the chain holds exactly the operations of the histories, the  *)
(* state was persisted and loaded, and RescanFromHeight(activation height) *)
(* runs, the persisted ledger state (balances, allowances, total supply,   *)
(* metadata with creation height, history, accrued governance fees, tip    *)
(* height) after the rescan is the state before it.                        *)
(***************************************************************************)
RECURSIVE ChainOps(_)
\* the token operations of chain c, as a set
ChainOps(c) ==
    IF c = <<>> THEN {}
    ELSE {Head(c)[i].op : i \in {j \in DOMAIN Head(c) : DecodeTokenOp(Head(c)[j])}}
         \cup ChainOps(Tail(c))

HistoryOps(L) ==
    UNION { {MapGet(L.m_history, t)[i] : i \in DOMAIN MapGet(L.m_history, t)} :
              t \in DOMAIN L.m_history }

ChainHoldsHistory == ChainOps(chain) = HistoryOps(ledger)

RescanOfLoaded ==
    /\ call.fn = "Load" /\ ret
    /\ db.s = LedgerState(ledger)
    /\ ChainHoldsHistory
    /\ HistoryOps(ledger) # {}
    /\ call'.fn = "RescanFromHeight"
    /\ call'.height = TokenActivationHeight

C21_RescanKeepsLoadedState ==
    [][RescanOfLoaded => LedgerState(ledger') = LedgerState(ledger)]_vars

(***************************************************************************)
(* C29: Load of a store whose version is above TOKEN_DB_VERSION returns    *)
(* false and leaves the ledger and the store as they were; Load of a store *)
(* that holds a state of a version up to TOKEN_DB_VERSION returns true,    *)
(* takes the stored state into the ledger and leaves the store at the      *)
(* current version.                                                        *)
(***************************************************************************)
LoadStep == call'.fn = "Load"

HoldsStored(L, state) ==
    /\ L.m_balances = state.balances
    /\ L.m_allowances = state.allowances
    /\ L.m_totalSupply = state.totalSupply
    /\ L.m_token_meta = state.token_meta
    /\ L.m_history = state.history
    /\ L.m_governance_fees = state.governance_fees

C29_NewerStoreRefused ==
    [][LoadStep =>
         /\ db.v > TOKEN_DB_VERSION => (~ret' /\ ledger' = ledger /\ db' = db)
         /\ (db.v <= TOKEN_DB_VERSION /\ db.s # NoState) =>
              /\ ret'
              /\ HoldsStored(ledger', db.s)
              /\ db'.v = TOKEN_DB_VERSION
              /\ db'.s = [db.s EXCEPT !.version = TOKEN_DB_VERSION]]_vars

\* a store of a newer version that holds tokens has just been refused
C29_Witness ==
    /\ call.fn = "Load" /\ ~ret
    /\ db.v > TOKEN_DB_VERSION
    /\ db.s # NoState /\ db.s.balances # EmptyMap
    /\ ledger = EmptyLedger

(***************************************************************************)
(* C22: a coinbase built for height nFeeBurnEndHeight has value outputs    *)
(* that sum to the subsidy alone and vTxFees[0] = 0; one built for height  *)
(* nFeeBurnEndHeight + 1 has value outputs that sum to the subsidy plus    *)
(* the collected fees and vTxFees[0] = -nFees.                             *)
(***************************************************************************)
C22_BurnWindowBoundary ==
    CoinbaseBuilt =>
        /\ asm.nHeight = nFeeBurnEndHeight =>
              /\ SumValues(ValueOutputs) = asm.subsidy
              /\ tmpl.vTxFees0 = 0
        /\ asm.nHeight = nFeeBurnEndHeight + 1 =>
              /\ SumValues(ValueOutputs) = asm.subsidy + asm.nFees
              /\ tmpl.vTxFees0 = -asm.nFees

\* a template for the last burning height whose transactions paid fees
C22_Witness ==
    /\ asm.pc = "returned"
    /\ asm.nHeight = nFeeBurnEndHeight
    /\ asm.nFees > 0
    /\ tmpl.vTxFees0 = 0
    /\ SumValues(ValueOutputs) = asm.subsidy

(***************************************************************************)
(* C23: with a subsidy of 50 * 10^8, collected fees of 1 * 10^8 that are   *)
(* not burned and valid governance and operator addresses, the coinbase    *)
(* pays the miner 22 * 10^8, governance 37.23 * 10^8 and the operator      *)
(* 2.55 * 10^8, which sum to 51 * 10^8.  Amounts are in units of 10^6      *)
(* satoshi; the shares of this reward divide without remainder.            *)
(***************************************************************************)
SplitScenario ==
    /\ CoinbaseBuilt
    /\ asm.nHeight > nFeeBurnEndHeight
    /\ asm.subsidy = 5000 /\ asm.nFees = 100
    /\ asm.govValid /\ asm.hasOpDest

C23_SplitScenario ==
    SplitScenario =>
        /\ ValueOutputs = <<[scriptPubKey |-> "miner", nValue |-> 2200],
                            [scriptPubKey |-> "governance", nValue |-> 3723],
                            [scriptPubKey |-> "operator", nValue |-> 255]>>
        /\ SumValues(ValueOutputs) = 5100

\* C23, amended: in that scenario the miner is paid 11.22 * 10^8, what the
\* governance and operator shares leave of 51 * 10^8
C23_SplitScenarioRemainder ==
    SplitScenario =>
        /\ ValueOutputs = <<[scriptPubKey |-> "miner", nValue |-> 1122],
                            [scriptPubKey |-> "governance", nValue |-> 3723],
                            [scriptPubKey |-> "operator", nValue |-> 255]>>
        /\ SumValues(ValueOutputs) = 5100

\* the scenario's template has been returned
C23_Witness ==
    /\ SplitScenario
    /\ asm.pc = "returned"
    /\ asm.nBlockTx >= 1

(***************************************************************************)
(* C24: at a height >= yespowerForkHeight and >= 2, with an nBits that     *)
(* decodes to a positive target within the active limit, CheckProofOfWork  *)
(* accepts exactly when the hash recomputed from the header is <= the      *)
(* target, whatever hash the caller passes.                                *)
(***************************************************************************)
YespowerCheck ==
    /\ powCall.fn = "CheckProofOfWork"
    /\ powCall.nHeight >= params.yespowerForkHeight
    /\ powCall.nHeight >= 2
    /\ ~BadBits(powCall.nBits, powCall.nHeight)

C24_RecomputedHashDecides ==
    YespowerCheck =>
        (powRet <=>
            /\ powCall.blockHeader.yespowerOk
            /\ powCall.blockHeader.yespowerHash
                   <= SetCompact(powCall.nBits).bnTarget)

(***************************************************************************)
(* C25: for a fixed header, nBits and height, a call of CheckProofOfWork   *)
(* that accepts a hash means the call with any smaller hash accepts too.   *)
(***************************************************************************)
C25_MonotoneInHash ==
    (powCall.fn = "CheckProofOfWork" /\ powRet) =>
        \A h1 \in PowHashes :
            h1 <= powCall.hash =>
                CheckProofOfWork(h1, powCall.blockHeader, powCall.nBits,
                                 powCall.nHeight)

(***************************************************************************)
(* C26: CheckProofOfWork returns true at height 0, and at height 1 for an  *)
(* nBits that decodes to a positive target within the active limit,        *)
(* whatever the passed hash and the header's hashes are.                   *)
(***************************************************************************)
C26_BootstrapHeightsAccepted ==
    /\ (powCall.fn = "CheckProofOfWork" /\ powCall.nHeight = 0) => powRet
    /\ (/\ powCall.fn = "CheckProofOfWork"
        /\ powCall.nHeight = 1
        /\ ~BadBits(powCall.nBits, powCall.nHeight)) => powRet

(***************************************************************************)
(* C27: no transaction of the mempool appears more than once in the block  *)
(* being assembled, whatever the mempool is and in whatever order packages *)
(* are taken from the mempool index and from the modified set.             *)
(***************************************************************************)
C27_NoTransactionTwice ==
    /\ \A i, j \in DOMAIN tmpl.vtx : i # j => tmpl.vtx[i] # tmpl.vtx[j]
    /\ asm.pc # "assert"

\* a returned block in which a transaction was added later than its parent,
\* with a transaction that is no ancestor of it in between: its package was
\* selected when the parent was in the block already
C27_Witness ==
    /\ asm.pc = "returned"
    /\ \E i, j, k \in DOMAIN tmpl.vtx :
          /\ i < j /\ j < k
          /\ tmpl.vtx[i] \in mempool[tmpl.vtx[k]].parents
          /\ tmpl.vtx[j] \notin CalculateMemPoolAncestors(tmpl.vtx[k])

(***************************************************************************)
(* C30: every pass of the selection loop in which the candidate fails (fee *)
(* floor, weight/sigops test or finality/witness test), be it taken from   *)
(* the mempool index or from the modified set, records the candidate in    *)
(* the failed set and increments the consecutive-failure counter; and the  *)
(* loop is left early only with more than 1000 consecutive failures and a  *)
(* block weight above nBlockMaxWeight - 4000.                              *)
(***************************************************************************)
\* the loop is over: the index is exhausted and the modified set is empty
LoopDone == asm.mi > Len(mapTxOrder) /\ DOMAIN asm.mapModifiedTx = {}

\* this pass only steps over an entry of the index
SkipPass ==
    /\ asm.mi <= Len(mapTxOrder)
    /\ SkipMapTxEntry(asm, mapTxOrder[asm.mi])

\* a pass that took a candidate and added nothing to the block
CandidateFailed ==
    /\ asm.pc = "select"
    /\ ~LoopDone /\ ~SkipPass
    /\ asm'.pc # "assert"
    /\ tmpl' = tmpl

\* the loop is left while candidates remain
EarlyAbort == asm.pc = "select" /\ ~LoopDone /\ asm'.pc = "coinbase"

AbortJustified ==
    /\ asm'.nConsecutiveFailed > MAX_CONSECUTIVE_FAILURES
    /\ asm.nBlockWeight > asm.nBlockMaxWeight - 4000

ErasedModified == DOMAIN asm.mapModifiedTx \ DOMAIN asm'.mapModifiedTx

\* the candidate of a failed pass came from the modified set
FromModified == DOMAIN asm'.mapModifiedTx # DOMAIN asm.mapModifiedTx

DecodedFrom(op, legacy) ==
    DecodeTokenOpData(IF legacy THEN SerializeLegacy(op) ELSE Serialize(op)).op

C28_DecodeIsIdentity ==
    call.fn = "DecodeTokenOp" =>
        /\ ret
        /\ call.decoded = call.op
        /\ call.op.memo = <<>> =>
              WireOperationHash(DecodedFrom(call.op, TRUE))
                  = WireOperationHash(DecodedFrom(call.op, FALSE))

(***************************************************************************)
(* C31: at every iteration of package selection every entry of the         *)
(* modified set carries the size, modified fee and sigops of the           *)
(* transaction and of its mempool ancestors that are not in the block,     *)
(* also when the entry failed, was erased and was inserted again.          *)
(***************************************************************************)
\* the aggregates of d over itself and its ancestors outside the block
RemainingPackage(d) ==
    LET pkg == (CalculateMemPoolAncestors(d) \cup {d}) \ asm.inBlock
    IN  [nSizeWithAncestors |-> SumTx(pkg, GetTxSize),
         nModFeesWithAncestors |-> SumTx(pkg, GetModifiedFee),
         nSigOpCostWithAncestors |-> SumTx(pkg, GetSigOpCost)]

C31_ModifiedAggregatesExact ==
    asm.pc = "select" =>
        \A d \in DOMAIN asm.mapModifiedTx :
            asm.mapModifiedTx[d] = RemainingPackage(d)

(***************************************************************************)
(* Claims on allowances and on the token operator.                         *)
(***************************************************************************)
\* the sum of the amounts of the operations of history h that are of one of
\* the kinds, come from owner and name spender as the party allowed to spend
RECURSIVE SumAmounts(_, _, _, _)
SumAmounts(h, kinds, owner, spender) ==
    IF h = <<>> THEN 0
    ELSE LET o == Head(h)
             party == IF o.op = "TRANSFERFROM" THEN o.spender ELSE o.to
         IN  (IF o.op \in kinds /\ o.from = owner /\ party = spender
              THEN o.amount ELSE 0)
             + SumAmounts(Tail(h), kinds, owner, spender)

\* what owner granted to spender for t, and what spender moved out of it
Approved(L, owner, spender, t) ==
    SumAmounts(HistoryOf(L, t), {"APPROVE", "INCREASE_ALLOWANCE"}, owner, spender)

MovedOut(L, owner, spender, t) ==
    SumAmounts(HistoryOf(L, t), {"TRANSFERFROM"}, owner, spender)

\* the balance of <<a, t>> after amount went from `from' to `to'
Moved(L, a, t, from, to, amount) ==
    Balance(L, a, t) - (IF a = from THEN amount ELSE 0)
                     + (IF a = to THEN amount ELSE 0)

ByOperator(L, op) ==
    /\ op.token \in DOMAIN L.m_token_meta
    /\ L.m_token_meta[op.token].operator_wallet = op.from

\* C33: the operator_wallet of a token changes only through a
\* TRANSFER_OWNERSHIP whose from is the current operator; a MINT is accepted
\* only when the token's metadata exists and from is the current operator;
\* a MINT or TRANSFER_OWNERSHIP by anyone else changes no balance, supply or
\* metadata.
C33_OperatorOnly ==
    [][call'.fn \in {"ApplyOperation", "ReplayOperation"}
         => LET o == call'.op IN
            /\ \A t \in DOMAIN ledger.m_token_meta :
                   OperatorOf(ledger', t) # OperatorOf(ledger, t)
                       => /\ o.op = "TRANSFER_OWNERSHIP" /\ o.token = t /\ ret'
                          /\ ByOperator(ledger, o)
                          /\ OperatorOf(ledger', t) = o.to
            /\ (o.op = "MINT" /\ ret') => ByOperator(ledger, o)
            /\ (o.op \in {"MINT", "TRANSFER_OWNERSHIP"} /\ ~ByOperator(ledger, o))
                   => /\ ~ret'
                      /\ ledger'.m_balances = ledger.m_balances
                      /\ ledger'.m_totalSupply = ledger.m_totalSupply
                      /\ ledger'.m_token_meta = ledger.m_token_meta]_vars

\* A handed T over to B, and the last call was accepted: a MINT by B, the
\* new operator
C33_Witness ==
    /\ IsLedgerCall /\ ret
    /\ call.op.op = "MINT" /\ call.op.from = "B"
    /\ OperatorOf(ledger, "T") = "B"
    /\ \E i \in 1 .. Len(HistoryOf(ledger, "T")) :
           HistoryOf(ledger, "T")[i].op = "TRANSFER_OWNERSHIP"

(***************************************************************************)
(* Claims on the emergency clamp of DGW3-Nova.                             *)
(***************************************************************************)
\* the chain that DarkGravityWave3Nova sees when it retargets for height h
ChainBelow(h) == SubSeq(pindexLast, 1, h)

\* the heights of the chain whose nBits came from DGW3-Nova with the
\* emergency rule in force
EmergencyHeights ==
    {h \in ChainHeights : h >= params.nextDifficultyFork3Height}

NovaV9(h) == h >= params.nextDifficultyFork5Height

NovaWindow(h) == IF NovaV9(h) THEN 12 ELSE 24

NovaTarget(h) == NovaWindow(h) * params.nPowTargetSpacing

\* the time the block below h took, and the time the window below h spans
LastSolveTime(h) == pindexLast[h].nTime - pindexLast[h - 1].nTime

WindowTimespan(h) == pindexLast[h].nTime - pindexLast[h - NovaWindow(h) + 1].nTime

\* the bound the emergency clamp reduces the timespan to
EmergencyBound(h) ==
    IF NovaV9(h) THEN Min(NovaTarget(h) \div 3, NovaTarget(h) \div 4)
    ELSE Min(NovaTarget(h) \div 6, NovaTarget(h) \div 8)

NormalClamp(h, timespan) ==
    Min(Max(timespan, NovaTarget(h) \div 3), 3 * NovaTarget(h))

\* the emergency clamp was applied at height h: the timespan was reduced to
\* the bound before the normal clamp, which v9 then skips
EmergencyApplied(h) ==
    LET t == NovaTimespan(ChainBelow(h)) IN
    /\ t.fired
    /\ t.afterEmergency = Min(WindowTimespan(h), EmergencyBound(h))
    /\ t.afterEmergency <= EmergencyBound(h)
    /\ t.actualTimespan = IF NovaV9(h) THEN t.afterEmergency
                          ELSE NormalClamp(h, t.afterEmergency)

\* the last solve-time is below the floor of the regime: 12 s before v9,
\* 24 s in v9
BelowFloor(h) == LastSolveTime(h) < (IF NovaV9(h) THEN 24 ELSE 12)

\* C34: in DGW3-Nova, for a next height >= nextDifficultyFork3Height, the
\* emergency clamp is applied whenever the last solve-time is below the
\* regime's floor or the unclamped timespan is below target/6: the timespan
\* is reduced to at most min(target/6, target/8) before v9 and min(target/3,
\* target/4) in v9, before the normal clamp to [target/3, 3*target], which
\* v9 skips when the emergency fired.
C34_EmergencyOnEitherSign ==
    \A h \in EmergencyHeights :
        (BelowFloor(h) \/ WindowTimespan(h) < NovaTarget(h) \div 6)
            => EmergencyApplied(h)

\* what triggers the emergency in each regime
EmergencyDue(h) ==
    IF NovaV9(h)
    THEN BelowFloor(h) /\ WindowTimespan(h) < NovaTarget(h) \div 6
    ELSE BelowFloor(h) \/ WindowTimespan(h) < NovaTarget(h) \div 6

\* C34 as the retarget computes it: before v9 the emergency clamp is applied
\* when the last solve-time is below 12 s or the unclamped timespan is below
\* target/6, in v9 when the last solve-time is below 24 s and the unclamped
\* timespan is below target/6; it is applied as the claim says, and when it
\* is not due the timespan only gets the normal clamp.
C34_EmergencyByRegime ==
    \A h \in EmergencyHeights :
        LET t == NovaTimespan(ChainBelow(h)) IN
        /\ EmergencyDue(h) => EmergencyApplied(h)
        /\ ~EmergencyDue(h)
               => /\ ~t.fired
                  /\ t.actualTimespan = NormalClamp(h, WindowTimespan(h))

\* the chain holds a block retargeted before v9 and a block retargeted in v9
\* for which the emergency fired
C34_Witness ==
    /\ \E h \in EmergencyHeights : ~NovaV9(h) /\ NovaTimespan(ChainBelow(h)).fired
    /\ \E h \in EmergencyHeights : NovaV9(h) /\ NovaTimespan(ChainBelow(h)).fired

\* C35: after any sequence of token operations, including operations with a
\* zero or negative amount, no balance, no allowance and no total supply is
\* negative.
C35_NothingNegative ==
    /\ \A k \in DOMAIN ledger.m_balances : ledger.m_balances[k] >= 0
    /\ \A k \in DOMAIN ledger.m_allowances : ledger.m_allowances[k] >= 0
    /\ \A t \in DOMAIN ledger.m_totalSupply : ledger.m_totalSupply[t] >= 0

(***************************************************************************)
(* Claims on replay protection across a restart.                           *)
(***************************************************************************)
\* the hash of every operation of every history is in m_seen_ops
HistoryHashesSeen ==
    \A t \in Tokens :
        \A i \in 1 .. Len(HistoryOf(ledger, t)) :
            TokenOperationHash(HistoryOf(ledger, t)[i]) \in ledger.m_seen_ops

\* C36: replay protection survives persistence: after Flush followed by Load
\* (a restart) the hash of every operation in every history is in seen_ops,
\* so an operation that is already in a history is rejected when it is
\* applied or replayed again.
C36_SeenOpsSurviveRestart ==
    /\ (call.fn = "Restart" /\ ret) => HistoryHashesSeen
    /\ (call.fn = "ApplyOperation" /\ ret)
           => Cardinality({i \in 1 .. Len(HistoryOf(ledger, call.op.token)) :
                              HistoryOf(ledger, call.op.token)[i] = call.op}) = 1

(***************************************************************************)
(* Claims on the progress and the isolation of mining rounds.              *)
(***************************************************************************)
\* the supervisor waits for foundBlock while no worker is left that could
\* set it: every worker thread has returned
Stalled ==
    /\ sup_pc = "wait"
    /\ fGenerating /\ ~shutdown /\ ~foundBlock
    /\ \A w \in DOMAIN wpc : WorkerExited(w)

\* C37: mining never stalls: while generating is set and no shutdown is
\* requested, in every round some worker of the round is still searching or
\* found_block gets set, so that the supervisor goes on to a new round; a
\* worker never leaves its nonce loop without the round being ended.
C37_NeverStalled == ~Stalled

\* C38: rounds are isolated: once the supervisor has cleared found_block and
\* built the template of a new round, no worker of an earlier round is still
\* running, so none hashes or submits a block of an earlier template.
C38_RoundsIsolated ==
    \A w \in DOMAIN wpc : w[1] < round => WorkerExited(w)

(***************************************************************************)
(* Claims on what other threads see of a rescan or a connected block.      *)
(***************************************************************************)
\* the ledger that the call in progress returns with
LedgerAfterCall ==
    IF call.fn = "ProcessBlock"
    THEN ProcessBlock(call.before, chain[call.height + 1], call.height)
    ELSE RescanFromHeight(call.before, chain, call.height)

\* C39: RescanFromHeight and ProcessBlock are atomic for other threads: a
\* concurrent reader observes the ledger as it was before the rescan or block
\* or as it is after it, never the cleared or partly rebuilt state in
\* between.
C39_ReadersSeeBeforeOrAfter ==
    (call.fn \in {"ProcessBlock", "RescanFromHeight"} /\ call.read # NoRead)
        => call.read.value
               \in { Balance(call.before, call.read.wallet, call.read.token),
                     Balance(LedgerAfterCall, call.read.wallet, call.read.token) }

(***************************************************************************)
(* Claims on the termination of package selection.                         *)
(***************************************************************************)
\* what is left for the loop: the transactions outside the block, and the
\* entries of the index behind the cursor together with the modified set
OutsideBlock(a) == Cardinality(DOMAIN mempool \ a.inBlock)

LeftToVisit(a) ==
    (Len(mapTxOrder) + 1 - a.mi) + Cardinality(DOMAIN a.mapModifiedTx)

\* C40: addPackageTxs terminates for every finite mempool and every
\* combination of outcomes of the fee, weight/sigops and finality/witness
\* tests: each iteration advances the mempool cursor, removes an entry from
\* the modified set or adds at least one transaction to the block.  A pass
\* that stays in the loop does one of the three, and it either puts a
\* transaction into the block, of which there are finitely many and none
\* leaves, or shortens what is left to visit.
C40_EveryPassProgresses ==
    [][(asm.pc = "select" /\ asm'.pc = "select")
         => /\ \/ asm'.mi > asm.mi
               \/ ErasedModified # {}
               \/ asm'.inBlock # asm.inBlock
            /\ asm'.mi >= asm.mi
            /\ asm.inBlock \subseteq asm'.inBlock
            /\ \/ OutsideBlock(asm') < OutsideBlock(asm)
               \/ /\ OutsideBlock(asm') = OutsideBlock(asm)
                  /\ LeftToVisit(asm') < LeftToVisit(asm)]_vars

\* the loop has ended with the cursor behind the index and the modified set
\* empty, after a pass that added a package, a pass that failed from the
\* modified set and a pass that failed from the index
C40_Witness ==
    /\ asm.pc = "coinbase"
    /\ LoopDone
    /\ asm.inBlock # {}
    /\ asm.failedTx # {}
    /\ asm.inBlock \cup asm.failedTx # DOMAIN mempool

====
